---- MODULE Spec2Model ----
(***************************************************************************)
(* Model of agent/src/flows/security.py :: assisted_flow, the four-stage   *)
(* generate / execute / regenerate pipeline of the security agent, as it   *)
(* is called once per iteration by the cycle loop of                       *)
(* agent/scripts/starter.py.                                               *)
(*                                                                         *)
(* The model agent (SecurityAgent), the ChatHistory type, the sandbox      *)
(* manager, the storage, the memory service and the sensor are             *)
(* collaborators: each call on them is a step whose result (Ok, Err or an  *)
(* exception) is chosen nondeterministically.                              *)
(***************************************************************************)
EXTENDS Integers, Sequences, FiniteSets, TLC

\* ------------------------------------------------------------------ bounds
MaxCycles == 2            \* calls of the flow that are explored
MaxErr    == 2            \* number of distinct error texts a collaborator can return
MaxIterations == 10       \* loop iterations that are explored
MaxPolls == 2             \* poll rounds of the monitor task that are explored
MaxThreats == 2           \* largest threats_discovered counter a status read returns

\* --------------------------------------------------------------- constants
MaxAttemptsOffByOne == 3 + 1
MaxAttempts  == 3         \* for i in range(3)

NL == 0                   \* the "\n" that precedes every error in err_acc
Errors == 1..MaxErr       \* str(e) of a failed result

Analysis    == 1
Strategy    == 2
Research    == 3
Remediation == 4
Stages == Analysis..Remediation

NoResponse == 0           \* get_latest_response() == ""

VARIABLES
    metric_name,                 \* fe_data["metric_name"], fixed for the session
    cycle,                       \* number of calls of the flow so far
    pc,                          \* position inside assisted_flow
    notif_str,                   \* "" or a non-empty text
    rag_result,                  \* summary / start / end metric state from memory
    stage,                       \* the stage whose loop is running (0 before the first)
    i,                           \* completed iterations of the stage's for loop
    err_acc, regen, success,     \* the stage's loop variables
    new_ch,                      \* the chat delta last bound to new_ch
    chat_history,                \* agent.chat_history (in-session history)
    for_training_chat_history,   \* the training history
    quarantine_code_output,      \* "unbound" until line 535 assigns it
    db,                          \* the cycle's storage writes, in order
    \* history variables (observations of the calls made, no program state)
    genCalls, regenCalls, runCalls,   \* calls made by the running stage
    stageStatus,                      \* per stage, in this cycle
    attempts,                         \* the attempts of the running stage
    regenLog,                         \* the regenerate calls of the running stage
    ragQuery,                         \* how the memory relevance query of the cycle went
    \* the orchestrator: start_security_agent_with_background_monitor and
    \* run_cycle_with_background_monitor
    opc,                         \* position of the orchestrator
    background_monitor,          \* "unset", "present" or "none" (None)
    cycle_count,                 \* the loop's cycle_count
    current_notif,               \* the notification text, as a sequence of parts
    exc,                         \* the exception that left run_cycle_..., or "none"
    \* history variables of the orchestrator
    stopCalls,                   \* calls of stop_monitoring
    iter,                        \* what happened in the current loop iteration
    prevCooled,                  \* the previous iteration ended in the cooldown
    interruptedAt,               \* where the interrupt request arrived, or "none"
    delivery,                    \* how it was delivered: "KeyboardInterrupt",
                                 \* "cancel_requested" (asyncio task cancel) or "none"
    loopExit,                    \* how the loop was left, or "none"
    \* the Background Monitor task
    monitor_polls,               \* poll rounds the monitor task has completed
    \* the code normalizer (extract_python_code, _complete_python_code)
    normalizer_input,            \* the text handed to the normalizer
    npc,                         \* which calls of the normalizer have been made
    first_pass,                  \* what the first call returned or raised
    second_pass                  \* what the call on the first call's text did

vars == << metric_name, cycle, pc, notif_str, rag_result, stage, i,
           err_acc, regen, success, new_ch, chat_history,
           for_training_chat_history, quarantine_code_output, db,
           genCalls, regenCalls, runCalls, stageStatus, attempts, regenLog,
           ragQuery,
           opc, background_monitor, cycle_count, current_notif, exc,
           stopCalls, iter, prevCooled, interruptedAt, delivery, monitor_polls, loopExit,
           normalizer_input, npc, first_pass, second_pass >>

normVars  == << normalizer_input, npc, first_pass, second_pass >>
orchVars  == << opc, background_monitor, cycle_count, current_notif, exc,
               stopCalls, iter, prevCooled, interruptedAt, delivery, monitor_polls, loopExit >>

flowVars  == << metric_name, cycle, notif_str >>
loopVars  == << i, err_acc, regen, success >>
histVars  == << new_ch, chat_history, for_training_chat_history >>
ghostVars == << genCalls, regenCalls, runCalls, stageStatus, attempts, regenLog >>
flowAll   == << flowVars, loopVars, histVars, ghostVars, pc, rag_result, stage,
               quarantine_code_output, db, ragQuery >>

\* ------------------------------------------------------------ chat history
\* A chat delta is a sequence of turns; a turn carries the stage that made it
\* and the id of its response (NoResponse for an instruction-only turn).
Turn(s, r) == [stage |-> s, resp |-> r]

RECURSIVE get_latest_response(_)
get_latest_response(ch) ==
    IF ch = << >> THEN NoResponse
    ELSE IF ch[Len(ch)].resp # NoResponse THEN ch[Len(ch)].resp
    ELSE get_latest_response(SubSeq(ch, 1, Len(ch) - 1))

\* ------------------------------------------------------------ stage tables
HasSandbox(s) == s # Strategy

AppendsInSessionAll(s) == TRUE
AppendsInSession(s) == s # Remediation

AbortsOnlyAnalysis(s) == s = Analysis
AbortsOnExhaustion(s) == s # Remediation

NextStageSkip(s) == IF s = Analysis THEN Research ELSE s + 1
NextStage(s) == s + 1

\* ------------------------------------------------------- the retry loop
LoopContinuesNoBreak(succ, n) == n < MaxAttempts
LoopContinues(succ, n) == ~succ /\ n < MaxAttempts

ErrAccReplace(acc, e) == << NL, e >>
ErrAccAppend(acc, e) == acc \o << NL, e >>

AfterGenNoUnwrap(res, s) == IF HasSandbox(s) THEN "run" ELSE "success"
AfterGen(res, s) ==
    IF res # "ok" THEN "except"
    ELSE IF HasSandbox(s) THEN "run" ELSE "success"

RegenLatestArgSession(nc, hist) == get_latest_response(hist)
RegenLatestArg(nc, hist) == get_latest_response(nc)

OutcomeAlwaysFailed(succ) == "failed"
Outcome(succ) == IF ~succ THEN "failed" ELSE "success"

Write(op, arg) == [op |-> op, arg |-> arg]

\* metric_fn = agent.sensor.get_metric_fn(metric_name); metric_fn(): the metric
\* state, as the sequence of its keys (none for a metric the sensor has no
\* figures for).
MetricState(name) == IF name = "security" THEN << "security_score" >> ELSE << >>

\* json.dumps of a dict: never the empty text.
json_dumpsBare(d) == d
json_dumps(d) == << "{" >> \o d \o << "}" >>

\* if metric_name == "security": agent.db.insert_wallet_snapshot(...)
StartWritesAnyMetric(name) == << Write("insert_wallet_snapshot", "start") >>
StartWritesNone(name) == << >>
StartWrites(name) ==
    IF name = "security"
    THEN << Write("insert_wallet_snapshot", "start") >>
    ELSE << >>

\* The StrategyInsertData handed to insert_strategy_and_result.
StrategyInsertData(outcome, start_metric_state, end_metric_state) ==
    [op |-> "insert_strategy_and_result",
     arg |-> outcome,
     start_metric_state |-> json_dumps(start_metric_state),
     end_metric_state |-> json_dumps(end_metric_state)]

\* if notif_str: related_strategies = agent.rag.relevant_strategy_raw(notif_str)
QueriesMemoryAlways(ns) == TRUE
QueriesMemory(ns) == ns # ""

\* ------------------------------------------------------ memory placeholders
RagEmpty == [summary |-> "", start_metric_state |-> "", end_metric_state |-> ""]
RagFound == [summary |-> "summarized_desc",
             start_metric_state |-> "parameters.start_metric_state",
             end_metric_state |-> "parameters.end_metric_state"]
RagNone  == [summary |-> "No previous security strategies found...",
             start_metric_state |-> "No previous security state available...",
             end_metric_state |-> "No previous security results available..."]
RagError == [summary |-> "Error retrieving security strategies from RAG...",
             start_metric_state |-> "Error retrieving previous security state...",
             end_metric_state |-> "Error retrieving previous security results..."]

\* Where the flow goes when relevant_strategy_raw raises: the except branch
\* falls through to the system prompt.
AfterRagErrorPropagate == "raised"
AfterRagError == "prepare"

\* The record of one loop iteration, as it is before the iteration's first step.
IterStart ==
    [digest |-> "unfetched", pre |-> "none", threats |-> 0, notif |-> << >>,
     flow |-> "notrun", aborted |-> FALSE, counted |-> FALSE, post |-> "none",
     raisedAt |-> "none"]

\* ------------------------------------------------------------------- Init
FlowInit ==
    /\ metric_name \in {"security", "other"}
    /\ cycle = 0
    /\ pc = "idle"
    /\ notif_str = ""
    /\ rag_result = RagEmpty
    /\ ragQuery = "none"
    /\ stage = 0
    /\ i = 0
    /\ err_acc = << >>
    /\ regen = FALSE
    /\ success = FALSE
    /\ new_ch = << >>
    /\ chat_history = << >>
    /\ for_training_chat_history = << >>
    /\ quarantine_code_output = "unbound"
    /\ db = << >>
    /\ genCalls = 0
    /\ regenCalls = 0
    /\ runCalls = 0
    /\ stageStatus = [s \in Stages |-> "idle"]
    /\ attempts = << >>
    /\ regenLog = << >>
    /\ opc = "setup"
    /\ background_monitor = "unset"
    /\ cycle_count = 0
    /\ current_notif = << >>
    /\ exc = "none"
    /\ stopCalls = 0
    /\ iter = IterStart
    /\ prevCooled = FALSE
    /\ interruptedAt = "none"
    /\ delivery = "none"
    /\ loopExit = "none"
    /\ monitor_polls = 0

\* What the normalizer's variables hold before any call of it.
NoResult == [exc |-> "none", text |-> << >>]

Init ==
    /\ FlowInit
    /\ normalizer_input = << "" >>
    /\ npc = "idle"
    /\ first_pass = NoResult
    /\ second_pass = NoResult

\* The loop variables as set before a stage's for loop.
StageInit(s) ==
    /\ stage' = s
    /\ i' = 0
    /\ err_acc' = << >>
    /\ regen' = FALSE
    /\ success' = FALSE
    /\ attempts' = << >>
    /\ regenLog' = << >>
    /\ genCalls' = 0
    /\ regenCalls' = 0
    /\ runCalls' = 0
    /\ stageStatus' = [stageStatus EXCEPT ![s] = "running"]

\* ------------------------------------------------- entry of assisted_flow
\* flow(prev_strat=..., notif_str=...): reset of the agent, a fresh training
\* history, the start metric and the start snapshot.
flow ==
    /\ pc \in {"idle", "returned", "raised"}
    /\ cycle < MaxCycles
    /\ cycle' = cycle + 1
    /\ \E ns \in {"", "notif"} : notif_str' = ns
    /\ chat_history' = << >>
    /\ for_training_chat_history' = << >>
    /\ new_ch' = << >>
    /\ rag_result' = RagEmpty
    /\ ragQuery' = "none"
    /\ quarantine_code_output' = "unbound"
    /\ stage' = 0
    /\ i' = 0
    /\ err_acc' = << >>
    /\ regen' = FALSE
    /\ success' = FALSE
    /\ genCalls' = 0
    /\ regenCalls' = 0
    /\ runCalls' = 0
    /\ stageStatus' = [s \in Stages |-> "idle"]
    /\ attempts' = << >>
    /\ regenLog' = << >>
    /\ \E raised \in BOOLEAN :
          IF raised
          THEN /\ pc' = "raised"
               /\ db' = << >>
          ELSE /\ pc' = "rag"
               /\ db' = StartWrites(metric_name)
    /\ UNCHANGED << metric_name, normVars, orchVars >>

\* The memory relevance query and its placeholders.
relevant_strategy_raw ==
    /\ pc = "rag"
    /\ IF ~QueriesMemory(notif_str)
       THEN /\ ragQuery' = "skipped"
            /\ rag_result' = RagNone
            /\ pc' = "prepare"
       ELSE \E r \in {"found", "empty", "raised"} :
               /\ ragQuery' = r
               /\ rag_result' = CASE r = "found"  -> RagFound
                                  [] r = "empty"  -> RagNone
                                  [] r = "raised" -> RagError
               /\ pc' = IF r = "raised" THEN AfterRagError ELSE "prepare"
    /\ UNCHANGED << normVars, orchVars, flowVars, stage, loopVars, histVars,
                    quarantine_code_output, db, ghostVars >>

\* The system prompt, appended to both histories, then the Analysis loop set-up.
prepare_system ==
    /\ pc = "prepare"
    /\ \E raised \in BOOLEAN :
          IF raised
          THEN /\ pc' = "raised"
               /\ UNCHANGED << stage, loopVars, histVars, ghostVars >>
          ELSE /\ new_ch' = << Turn(0, NoResponse) >>
               /\ chat_history' = chat_history \o new_ch'
               /\ for_training_chat_history' = for_training_chat_history \o new_ch'
               /\ StageInit(Analysis)
               /\ pc' = "attempt"
    /\ UNCHANGED << normVars, orchVars, flowVars, rag_result, ragQuery, quarantine_code_output, db >>

\* ------------------------------------------------------ one stage attempt
\* except UnwrapError: the only except clause of a stage's try statement; it
\* catches the failed result that unwrap() raised and nothing else.
ExceptCatchesAll(res) == res # "ok"
ExceptCatches(res) == res = "err"

\* except UnwrapError: mark regenerating, accumulate the error, next iteration.
ExceptUnwrapError(e) ==
    /\ regen' = TRUE
    /\ err_acc' = ErrAccAppend(err_acc, e)
    /\ i' = i + 1
    /\ success' = success
    /\ pc' = IF LoopContinues(success, i + 1) THEN "attempt" ELSE "stage_end"

\* success = True; break
SuccessBreak ==
    /\ success' = TRUE
    /\ i' = i + 1
    /\ pc' = IF LoopContinues(TRUE, i + 1) THEN "attempt" ELSE "stage_end"
    /\ UNCHANGED << regen, err_acc >>

\* agent.chat_history += new_ch ; for_training_chat_history += new_ch
AppendHistoriesSessionOnly(s, nc) ==
    /\ chat_history' = chat_history \o nc
    /\ for_training_chat_history' = for_training_chat_history
AppendHistories(s, nc) ==
    /\ chat_history' = IF AppendsInSession(s)
                       THEN chat_history \o nc ELSE chat_history
    /\ for_training_chat_history' = for_training_chat_history \o nc

\* What follows a generation step whose result is res.
AfterGeneration(s, res, e, nc) ==
    LET nxt == AfterGen(res, s) IN
    CASE nxt = "except" ->
            /\ ExceptUnwrapError(e)
            /\ UNCHANGED << chat_history, for_training_chat_history >>
      [] nxt = "run" ->
            /\ AppendHistories(s, nc)
            /\ pc' = "run"
            /\ UNCHANGED loopVars
      [] nxt = "success" ->
            /\ AppendHistories(s, nc)
            /\ SuccessBreak

\* The response a successful regen_on_error call at attempt n returns: a text
\* of its own, different from the responses of the first-attempt generators.
RegenResponse(n) == Remediation + n

\* One attempt as observed: which generation function ran, its result, the
\* sandbox result, the attempt's error, the latest response of the delta
\* the generation call returned (regen_on_error returns none) and the
\* response the result unwraps to (none for a failed result).
Attempt(fn, res, e, r, code) ==
    [fn |-> fn, gen |-> res, run |-> "none", err |-> e, resp |-> r,
     code |-> code]

\* The first-attempt generator of the stage (gen_analysis_code_on_first or,
\* with a previous strategy, gen_analysis_code; gen_security_strategy;
\* gen_analysis_code; gen_quarantine_code).  It returns a result and a chat
\* delta, which is bound to new_ch before the result is unwrapped.  A
\* successful result comes with a delta that holds the response; the delta of
\* a failed result may or may not hold one.
gen_first ==
    /\ pc = "attempt"
    /\ ~regen
    /\ genCalls' = genCalls + 1
    /\ \E res \in {"ok", "err", "raise"}, e \in Errors, withResp \in BOOLEAN :
          /\ res = "ok" => (e = 1 /\ withResp)
          /\ res = "raise" => (e = 1 /\ withResp)
          /\ IF res # "ok" /\ ~ExceptCatches(res)
             THEN /\ pc' = "raised"
                  /\ stageStatus' = [stageStatus EXCEPT ![stage] = "raised"]
                  /\ UNCHANGED << loopVars, histVars, attempts >>
             ELSE /\ new_ch' = << Turn(stage, IF withResp THEN stage ELSE NoResponse) >>
                  /\ attempts' = Append(attempts,
                                   Attempt("gen", res, IF res = "err" THEN e ELSE 0,
                                           IF withResp THEN stage ELSE NoResponse,
                                           IF res = "ok" THEN stage ELSE NoResponse))
                  /\ AfterGeneration(stage, res, e, new_ch')
                  /\ UNCHANGED stageStatus
    /\ UNCHANGED << normVars, orchVars, flowVars, rag_result, ragQuery, stage, quarantine_code_output, db,
                    regenCalls, runCalls, regenLog >>

\* agent.regen_on_error(errors=err_acc, latest_response=new_ch.get_latest_response())
regen_on_error ==
    /\ pc = "attempt"
    /\ regen
    /\ regenCalls' = regenCalls + 1
    /\ regenLog' = Append(regenLog,
                     [attempt |-> i + 1,
                      errors |-> err_acc,
                      latest_response |-> RegenLatestArg(new_ch, chat_history),
                      session_latest |-> get_latest_response(chat_history)])
    /\ \E res \in {"ok", "err", "raise"}, e \in Errors :
          /\ res # "err" => e = 1
          /\ IF res # "ok" /\ ~ExceptCatches(res)
             THEN /\ pc' = "raised"
                  /\ stageStatus' = [stageStatus EXCEPT ![stage] = "raised"]
                  /\ UNCHANGED << loopVars, chat_history,
                                  for_training_chat_history, attempts >>
             ELSE /\ attempts' = Append(attempts,
                                   Attempt("regen", res, IF res = "err" THEN e ELSE 0,
                                           NoResponse,
                                           IF res = "ok" THEN RegenResponse(i + 1)
                                           ELSE NoResponse))
                  /\ AfterGeneration(stage, res, e, new_ch)
                  /\ UNCHANGED stageStatus
    /\ UNCHANGED << normVars, orchVars, flowVars, rag_result, ragQuery, stage, new_ch, quarantine_code_output,
                    db, genCalls, runCalls >>

\* extract_python_code, then container_manager.run_code_in_con and its unwrap.
run_code_in_con ==
    /\ pc = "run"
    /\ runCalls' = runCalls + 1
    /\ \E res \in {"ok", "err", "raise"}, e \in Errors :
          /\ res # "err" => e = 1
          /\ attempts' = [attempts EXCEPT ![Len(attempts)] =
                            [@ EXCEPT !.run = res,
                                      !.err = IF res = "err" THEN e ELSE @]]
          /\ CASE res # "ok" /\ ~ExceptCatches(res) ->
                    /\ pc' = "raised"
                    /\ stageStatus' = [stageStatus EXCEPT ![stage] = "raised"]
                    /\ UNCHANGED << loopVars, quarantine_code_output >>
               [] ExceptCatches(res) ->
                    /\ ExceptUnwrapError(e)
                    /\ UNCHANGED << stageStatus, quarantine_code_output >>
               [] res = "ok" ->
                    /\ SuccessBreak
                    /\ quarantine_code_output' =
                          IF stage = Remediation THEN "output"
                          ELSE quarantine_code_output
                    /\ UNCHANGED stageStatus
    /\ UNCHANGED << normVars, orchVars, flowVars, rag_result, ragQuery, stage, histVars, db,
                    genCalls, regenCalls, regenLog >>
\* ---------------------------------------------------- after a stage's loop
\* if not success: ... return   (Analysis, Strategy, Threat Research)
stage_exhausted_return ==
    /\ pc = "stage_end"
    /\ ~success
    /\ AbortsOnExhaustion(stage)
    /\ pc' = "returned"
    /\ stageStatus' = [stageStatus EXCEPT ![stage] = "exhausted"]
    /\ UNCHANGED << normVars, orchVars, flowVars, rag_result, ragQuery, stage, loopVars, histVars,
                    quarantine_code_output, db,
                    genCalls, regenCalls, runCalls, attempts, regenLog >>

\* A stage that succeeded is followed by the set-up of the next stage's loop.
stage_succeeded ==
    /\ pc = "stage_end"
    /\ success
    /\ stage # Remediation
    /\ LET nxt == NextStage(stage) IN
          /\ stage' = nxt
          /\ i' = 0
          /\ err_acc' = << >>
          /\ regen' = FALSE
          /\ success' = FALSE
          /\ attempts' = << >>
          /\ regenLog' = << >>
          /\ genCalls' = 0
          /\ regenCalls' = 0
          /\ runCalls' = 0
          /\ stageStatus' = [stageStatus EXCEPT ![stage] = "succeeded",
                                                ![nxt] = "running"]
    /\ pc' = "attempt"
    /\ UNCHANGED << normVars, orchVars, flowVars, rag_result, ragQuery, histVars, quarantine_code_output, db >>

\* The end of the Remediation loop: the "if not success ... else ..." log
\* lines, which return in neither branch.
remediation_end ==
    /\ pc = "stage_end"
    /\ stage = Remediation \/ (~success /\ ~AbortsOnExhaustion(stage))
    /\ pc' = "log_output"
    /\ stageStatus' = [stageStatus EXCEPT ![stage] =
                          IF success THEN "succeeded" ELSE "exhausted"]
    /\ UNCHANGED << normVars, orchVars, flowVars, rag_result, ragQuery, stage, loopVars, histVars,
                    quarantine_code_output, db,
                    genCalls, regenCalls, runCalls, attempts, regenLog >>

\* logger.info(f"Security implementation output: \n{quarantine_code_output}")
\* reads a local that only a successful sandbox run has bound.
log_quarantine_code_output ==
    /\ pc = "log_output"
    /\ pc' = IF quarantine_code_output = "unbound" THEN "raised" ELSE "insert_chat"
    /\ UNCHANGED << normVars, orchVars, flowVars, rag_result, ragQuery, stage, loopVars, histVars,
                    quarantine_code_output, db, ghostVars >>

\* agent.db.insert_chat_history(session_id, for_training_chat_history)
insert_chat_history ==
    /\ pc = "insert_chat"
    /\ \E raised \in BOOLEAN :
          IF raised
          THEN pc' = "raised" /\ db' = db
          ELSE /\ pc' = "end_snapshot"
               /\ db' = Append(db, Write("insert_chat_history",
                                         for_training_chat_history))
    /\ UNCHANGED << normVars, orchVars, flowVars, rag_result, ragQuery, stage, loopVars, histVars,
                    quarantine_code_output, ghostVars >>

\* end_metric_state = metric_fn() and the end snapshot insert.
insert_wallet_snapshot_end ==
    /\ pc = "end_snapshot"
    /\ \E raised \in BOOLEAN :
          IF raised
          THEN pc' = "raised" /\ db' = db
          ELSE /\ pc' = "insert_strategy"
               /\ db' = Append(db, Write("insert_wallet_snapshot", "end"))
    /\ UNCHANGED << normVars, orchVars, flowVars, rag_result, ragQuery, stage, loopVars, histVars,
                    quarantine_code_output, ghostVars >>

\* The summarizer calls and agent.db.insert_strategy_and_result.
insert_strategy_and_result ==
    /\ pc = "insert_strategy"
    /\ \E raised \in BOOLEAN :
          IF raised
          THEN pc' = "raised" /\ db' = db
          ELSE /\ pc' = "returned"
               /\ db' = Append(db, StrategyInsertData(Outcome(success),
                                                      MetricState(metric_name),
                                                      MetricState(metric_name)))
    /\ UNCHANGED << normVars, orchVars, flowVars, rag_result, ragQuery, stage, loopVars, histVars,
                    quarantine_code_output, ghostVars >>

Next ==
    \/ flow
    \/ relevant_strategy_raw
    \/ prepare_system
    \/ gen_first
    \/ regen_on_error
    \/ run_code_in_con
    \/ stage_exhausted_return
    \/ stage_succeeded
    \/ remediation_end
    \/ log_quarantine_code_output
    \/ insert_chat_history
    \/ insert_wallet_snapshot_end
    \/ insert_strategy_and_result

Spec == Init /\ [][Next]_vars

TypeOK ==
    /\ pc \in {"idle", "rag", "prepare", "attempt", "run", "stage_end",
               "log_output", "insert_chat", "end_snapshot", "insert_strategy",
               "returned", "raised"}
    /\ stage \in 0..Remediation
    /\ i \in 0..MaxAttempts
    /\ cycle \in 0..MaxCycles
\* ==================================================== the cycle orchestrator
\* start_security_agent_with_background_monitor and the loop of
\* run_cycle_with_background_monitor.  The flow is summarised here by its two
\* phases, the stage pipeline and the persistence block; the interval
\* configuration is taken to be a valid integer.

\* The parts of the notification text.
Summary == "Background Monitor Alert: ... Tracking ... Last update: ..."
Separator == "\n\nOther notifications: "
DigestText(d) == IF d = "digest" THEN << "digest" >> ELSE << >>

\* if current_notif: f"{threat_summary}\n\nOther notifications: {current_notif}"
\* else: threat_summary
EnhancedNotif(notif) ==
    IF notif # << >> THEN << Summary, Separator >> \o notif ELSE << Summary >>

\* if monitor_status['statistics']['threats_discovered'] > 0
ShouldPrependAlways(threats) == threats >= 0
ShouldPrepend(threats) == threats > 0

\* if background_monitor:
MonitorPresentUnguarded(m) == TRUE
MonitorPresent(m) == m = "present"

\* Which clause handles an exception of the given kind raised at position at:
\* the try body is covered by "except KeyboardInterrupt: break" and "except
\* Exception: ... sleep(60)"; the sleep of the except branch is covered by
\* neither, and CancelledError, a BaseException, matches neither.
HandlerForNoExcept(kind, at) ==
    IF at = "cooldown" THEN "propagate"
    ELSE IF kind = "KeyboardInterrupt" THEN "break" ELSE "propagate"
HandlerForBroadExcept(kind, at) ==
    IF at = "cooldown" THEN "propagate" ELSE "cooldown"
HandlerFor(kind, at) ==
    IF at = "cooldown" THEN "propagate"
    ELSE IF kind = "KeyboardInterrupt" THEN "break"
    ELSE IF kind = "Exception" THEN "cooldown"
    ELSE "propagate"

\* A failing status read is caught by the try/except around the read.
AfterStatusReadFailureUncaught(next) == "cooldown"
AfterStatusReadFailure(next) == next

\* finally: if background_monitor: await background_monitor.stop_monitoring()
StopsMonitorOnReturnOnly(m, propagating) == m = "present" /\ ~propagating
StopsMonitor(m, propagating) == m = "present"

\* if cycle_count % 10 == 0 and background_monitor
StatusInterval == 10
ShowsStatusEveryCycle(n, m) == MonitorPresent(m)
ShowsStatus(n, m) == n % StatusInterval = 0 /\ MonitorPresent(m)

LoopPositions ==
    {"iter_begin", "fetch_notif", "enhance", "flow_call", "flow_stages",
     "flow_persist", "add_cycle_count", "status", "sleep", "cooldown"}
FlowPositions == {"flow_stages", "flow_persist"}

\* An exception of the given kind raised at the current position: where
\* control goes.
Raise(kind) ==
    LET h == HandlerFor(kind, opc) IN
    /\ opc' = IF h = "cooldown" THEN "cooldown" ELSE "finally"
    /\ loopExit' = CASE h = "cooldown" -> loopExit
                     [] h = "break" -> "interrupt_branch"
                     [] OTHER -> "exception"
    /\ exc' = IF h = "propagate" THEN kind ELSE exc

\* The iteration record after op raised an exception of the given kind.
Raised(it, kind, op) ==
    [it EXCEPT !.raisedAt = op,
               !.flow = IF opc \in FlowPositions
                        THEN (IF kind = "KeyboardInterrupt"
                              THEN "interrupted" ELSE "raised")
                        ELSE @]

\* The main task resumes from an await with a cancellation requested:
\* CancelledError is raised at the await.
Cancelled ==
    /\ delivery = "cancel_requested"
    /\ Raise("CancelledError")
    /\ iter' = Raised(iter, "CancelledError", "interrupt")

\* Lines 84-116: container manager, summarizer, previous strategies, agent.
setup_agent ==
    /\ opc = "setup"
    /\ \E raised \in BOOLEAN :
          IF raised
          THEN opc' = "propagated" /\ exc' = "Exception"
          ELSE opc' = "start_monitor" /\ exc' = exc
    /\ UNCHANGED << normVars, flowAll, background_monitor, cycle_count, current_notif,
                    stopCalls, iter, prevCooled, interruptedAt, delivery, monitor_polls, loopExit >>

\* try: background_monitor = await start_background_monitor(db, rag)
\* except Exception: background_monitor = None
start_background_monitor ==
    /\ opc = "start_monitor"
    /\ \E raised \in BOOLEAN :
          background_monitor' = IF raised THEN "none" ELSE "present"
    /\ opc' = "start_incoming"
    /\ UNCHANGED << normVars, flowAll, cycle_count, current_notif, exc,
                    stopCalls, iter, prevCooled, interruptedAt, delivery, monitor_polls, loopExit >>

\* The guarded start of the sensor's incoming monitor, then the call of
\* run_cycle_with_background_monitor (cycle_count = 0).
start_incoming_monitor ==
    /\ opc = "start_incoming"
    /\ opc' = "iter_begin"
    /\ cycle_count' = 0
    /\ UNCHANGED << normVars, flowAll, background_monitor, current_notif, exc,
                    stopCalls, iter, prevCooled, interruptedAt, delivery, monitor_polls, loopExit >>

\* cycle_count += 1; prev_strat = fetch_latest_strategy(...); save_result_batch_v4
fetch_latest_strategy ==
    /\ opc = "iter_begin"
    /\ cycle_count < MaxIterations
    /\ cycle_count' = cycle_count + 1
    /\ \E raised \in BOOLEAN :
          IF raised
          THEN /\ Raise("Exception")
               /\ iter' = Raised(IterStart, "Exception", "fetch_latest_strategy")
          ELSE /\ opc' = "fetch_notif"
               /\ iter' = IterStart
               /\ UNCHANGED << exc, loopExit >>
    /\ UNCHANGED << normVars, flowAll, background_monitor, current_notif,
                    stopCalls, prevCooled, interruptedAt, delivery, monitor_polls >>

\* current_notif = agent.db.fetch_latest_notification_str_v2(notif_sources, notif_limit)
fetch_latest_notification_str_v2 ==
    /\ opc = "fetch_notif"
    /\ \E res \in {"", "digest", "failed"} :
          IF res = "failed"
          THEN /\ Raise("Exception")
               /\ iter' = Raised([iter EXCEPT !.digest = "failed"], "Exception",
                                 "fetch_latest_notification_str_v2")
               /\ UNCHANGED current_notif
          ELSE /\ current_notif' = DigestText(res)
               /\ iter' = [iter EXCEPT !.digest = res]
               /\ opc' = "enhance"
               /\ UNCHANGED << exc, loopExit >>
    /\ UNCHANGED << normVars, flowAll, background_monitor, cycle_count,
                    stopCalls, prevCooled, interruptedAt, delivery, monitor_polls >>

\* The pre-cycle status read and the threat summary (lines 202-221).
enhance_notifications ==
    /\ opc = "enhance"
    /\ IF ~MonitorPresent(background_monitor)
       THEN /\ iter' = [iter EXCEPT !.pre = "skipped"]
            /\ opc' = "flow_call"
            /\ UNCHANGED << current_notif, exc, loopExit >>
       ELSE \/ Cancelled /\ UNCHANGED current_notif
            \/ UNCHANGED << exc, loopExit >> /\ \E res \in {"ok", "failed"}, threats \in 0..MaxThreats :
               /\ res = "failed" => threats = 0
               /\ IF res = "failed"
                  THEN LET nxt == AfterStatusReadFailure("flow_call") IN
                       /\ opc' = nxt
                       /\ iter' = [iter EXCEPT !.pre = "failed",
                                     !.raisedAt = IF nxt = "cooldown"
                                                  THEN "get_monitoring_status"
                                                  ELSE @]
                       /\ UNCHANGED current_notif
                  ELSE /\ opc' = "flow_call"
                       /\ iter' = [iter EXCEPT !.pre = "ok", !.threats = threats]
                       /\ current_notif' = IF ShouldPrepend(threats)
                                           THEN EnhancedNotif(current_notif)
                                           ELSE current_notif
    /\ UNCHANGED << normVars, flowAll, background_monitor, cycle_count,
                    stopCalls, prevCooled, interruptedAt, delivery, monitor_polls >>

\* flow(prev_strat=prev_strat, notif_str=current_notif): a plain call, the
\* loop goes on only when the flow has returned or raised.
AfterFlowCallDetached == "add_cycle_count"
AfterFlowCall == "flow_stages"

flow_call ==
    /\ opc = "flow_call"
    /\ opc' = AfterFlowCall
    /\ iter' = [iter EXCEPT !.flow = "running", !.notif = current_notif]
    /\ UNCHANGED << normVars, flowAll, background_monitor, cycle_count, current_notif, exc,
                    stopCalls, prevCooled, interruptedAt, delivery, monitor_polls, loopExit >>

\* Where the loop continues when flow(...) returned: the statement after the
\* call, whether the flow ran to its end or returned early.
AfterFlowReturnCountsCompleted(aborted) ==
    IF aborted THEN "status" ELSE "add_cycle_count"
AfterFlowReturn(aborted) == "add_cycle_count"

\* The stage pipeline of the flow: it completes, returns early after a stage
\* exhausted its attempts, or raises.
flow_stages ==
    /\ opc = "flow_stages"
    /\ \E res \in {"completed", "aborted", "raised"} :
          CASE res = "completed" ->
                  /\ opc' = "flow_persist"
                  /\ UNCHANGED << iter, exc, loopExit >>
            [] res = "aborted" ->
                  /\ opc' = AfterFlowReturn(TRUE)
                  /\ iter' = [iter EXCEPT !.flow = "returned", !.aborted = TRUE]
                  /\ UNCHANGED << exc, loopExit >>
            [] res = "raised" ->
                  /\ Raise("Exception")
                  /\ iter' = Raised(iter, "Exception", "flow")
    /\ UNCHANGED << normVars, flowAll, background_monitor, cycle_count, current_notif,
                    stopCalls, prevCooled, interruptedAt, delivery, monitor_polls >>

\* The persistence block of the flow.
flow_persist ==
    /\ opc = "flow_persist"
    /\ \E raised \in BOOLEAN :
          IF raised
          THEN /\ Raise("Exception")
               /\ iter' = Raised(iter, "Exception", "flow")
          ELSE /\ opc' = AfterFlowReturn(FALSE)
               /\ iter' = [iter EXCEPT !.flow = "returned"]
               /\ UNCHANGED << exc, loopExit >>
    /\ UNCHANGED << normVars, flowAll, background_monitor, cycle_count, current_notif,
                    stopCalls, prevCooled, interruptedAt, delivery, monitor_polls >>

\* db.add_cycle_count(session_id, agent_id)
add_cycle_count ==
    /\ opc = "add_cycle_count"
    /\ \E raised \in BOOLEAN :
          IF raised
          THEN /\ Raise("Exception")
               /\ iter' = Raised(iter, "Exception", "add_cycle_count")
          ELSE /\ opc' = "status"
               /\ iter' = [iter EXCEPT !.counted = TRUE]
               /\ UNCHANGED << exc, loopExit >>
    /\ UNCHANGED << normVars, flowAll, background_monitor, cycle_count, current_notif,
                    stopCalls, prevCooled, interruptedAt, delivery, monitor_polls >>

\* Show monitoring status every 10 cycles (lines 229-239).
show_monitoring_status ==
    /\ opc = "status"
    /\ IF ~ShowsStatus(cycle_count, background_monitor)
       THEN /\ iter' = [iter EXCEPT !.post = "skipped"]
            /\ opc' = "sleep"
            /\ UNCHANGED << exc, loopExit >>
       ELSE \/ Cancelled
            \/ UNCHANGED << exc, loopExit >> /\ \E res \in {"ok", "failed"} :
               IF res = "failed"
               THEN LET nxt == AfterStatusReadFailure("sleep") IN
                    /\ opc' = nxt
                    /\ iter' = [iter EXCEPT !.post = "failed",
                                  !.raisedAt = IF nxt = "cooldown"
                                               THEN "get_monitoring_status"
                                               ELSE @]
               ELSE /\ opc' = "sleep"
                    /\ iter' = [iter EXCEPT !.post = "logged"]
    /\ UNCHANGED << normVars, flowAll, background_monitor, cycle_count, current_notif,
                    stopCalls, prevCooled, interruptedAt, delivery, monitor_polls >>

\* await asyncio.sleep(cycle_interval), then the next iteration.
sleep_interval ==
    /\ opc = "sleep"
    /\ IF delivery = "cancel_requested"
       THEN Cancelled /\ UNCHANGED prevCooled
       ELSE /\ opc' = "iter_begin"
            /\ prevCooled' = FALSE
            /\ UNCHANGED << exc, iter, loopExit >>
    /\ UNCHANGED << normVars, flowAll, background_monitor, cycle_count, current_notif,
                    stopCalls, interruptedAt, delivery, monitor_polls >>

\* except Exception: ... await asyncio.sleep(60), then the next iteration.
cooldown_sleep ==
    /\ opc = "cooldown"
    /\ IF delivery = "cancel_requested"
       THEN Cancelled /\ UNCHANGED prevCooled
       ELSE /\ opc' = "iter_begin"
            /\ prevCooled' = TRUE
            /\ UNCHANGED << exc, iter, loopExit >>
    /\ UNCHANGED << normVars, flowAll, background_monitor, cycle_count, current_notif,
                    stopCalls, interruptedAt, delivery, monitor_polls >>

\* An interrupt request reaches the program in one of two ways, depending on
\* the runtime under asyncio.run(main_security_loop(...)): KeyboardInterrupt is
\* raised where the orchestrator is, or the main task is cancelled and
\* CancelledError is raised at its next await.
cancel_main_task ==
    /\ opc \in LoopPositions
    /\ interruptedAt = "none"
    /\ interruptedAt' = opc
    /\ delivery' = "cancel_requested"
    /\ UNCHANGED << normVars, flowAll, opc, background_monitor, cycle_count,
                    current_notif, exc, stopCalls, iter, prevCooled, loopExit,
                    monitor_polls >>

keyboard_interrupt ==
    /\ opc \in LoopPositions
    /\ interruptedAt = "none"
    /\ interruptedAt' = opc
    /\ delivery' = "KeyboardInterrupt"
    /\ Raise("KeyboardInterrupt")
    /\ iter' = Raised(iter, "KeyboardInterrupt", "interrupt")
    /\ UNCHANGED << normVars, flowAll, background_monitor, cycle_count, current_notif,
                    stopCalls, prevCooled, monitor_polls >>

\* The Background Monitor is a task of the same event loop: it runs only
\* while the orchestrator is suspended in one of its awaits (the sensor start,
\* the status reads, the two sleeps, the stop request).  The flow is a plain
\* synchronous call and holds the event loop until it returns.
SuspensionPoints ==
    {"start_incoming", "enhance", "status", "sleep", "cooldown", "finally"}
CanScheduleAnywhere(pos) == TRUE
CanSchedule(pos) == pos \in SuspensionPoints

\* One poll round of the monitor task.
monitor_poll ==
    /\ background_monitor = "present"
    /\ stopCalls = 0
    /\ CanSchedule(opc)
    /\ monitor_polls < MaxPolls
    /\ monitor_polls' = monitor_polls + 1
    /\ UNCHANGED << normVars, flowAll, opc, background_monitor, cycle_count,
                    current_notif, exc, stopCalls, iter, prevCooled,
                    interruptedAt, delivery, loopExit >>

\* finally: if background_monitor: await background_monitor.stop_monitoring()
stop_monitoring ==
    /\ opc = "finally"
    /\ IF StopsMonitor(background_monitor, exc # "none")
       THEN /\ stopCalls' = stopCalls + 1
            /\ \E raised \in BOOLEAN :
                  IF raised
                  THEN opc' = "propagated" /\ exc' = "Exception"
                  ELSE /\ opc' = IF exc = "none" THEN "done" ELSE "propagated"
                       /\ exc' = exc
       ELSE /\ opc' = IF exc = "none" THEN "done" ELSE "propagated"
            /\ UNCHANGED << stopCalls, exc >>
    /\ UNCHANGED << normVars, flowAll, background_monitor, cycle_count, current_notif,
                    iter, prevCooled, interruptedAt, delivery, monitor_polls, loopExit >>

LoopNext ==
    \/ setup_agent
    \/ start_background_monitor
    \/ start_incoming_monitor
    \/ fetch_latest_strategy
    \/ fetch_latest_notification_str_v2
    \/ enhance_notifications
    \/ flow_call
    \/ flow_stages
    \/ flow_persist
    \/ add_cycle_count
    \/ show_monitoring_status
    \/ sleep_interval
    \/ cooldown_sleep
    \/ keyboard_interrupt
    \/ cancel_main_task
    \/ monitor_poll
    \/ stop_monitoring

LoopInit == Init /\ metric_name = "security"

LoopSpec == LoopInit /\ [][LoopNext]_vars

LoopTypeOK ==
    /\ opc \in LoopPositions \cup {"setup", "start_monitor", "start_incoming",
                                    "finally", "done", "propagated"}
    /\ background_monitor \in {"unset", "present", "none"}
    /\ cycle_count \in 0..MaxIterations
    /\ stopCalls \in 0..1
    /\ delivery \in {"none", "KeyboardInterrupt", "cancel_requested"}
    /\ monitor_polls \in 0..MaxPolls
    /\ exc \in {"none", "Exception", "KeyboardInterrupt", "CancelledError"}

\* ====================================================== the code normalizer
\* extract_python_code, _is_valid_python_code and _complete_python_code work on
\* a text line by line or by patterns that never span a line break, so a text
\* is modelled by the sequence of its lines and each test on a line by the set
\* of the lines that pass it.
MaxLen == 4

\* The lines the explored texts are made of.  An input text is a sequence of
\* these lines; {EN DASH} stands for the character U+2013,
\* {FENCE} for three backquotes.

InputLines ==
    {"# Security {EN DASH} script",
     "import time",
     "    time.sleep(5)",
     "from dotenv import load_dotenv",
     "def main():",
     "{FENCE}python",
     "{FENCE}",
     "----------",
     "Here is the script:",
     "print('ok')",
     ""}

\* line 28: dashes and curly quotes are replaced by their ASCII forms
FixUnicodeLine(l) ==
    CASE l = "# Security {EN DASH} script" -> "# Security - script"
      [] OTHER -> l


\* str.strip() of one line
StripLine(l) ==
    CASE l = "    time.sleep(5)" -> "time.sleep(5)"
      [] OTHER -> l


\* str.lstrip() of one line
LStripLine(l) ==
    CASE l = "    time.sleep(5)" -> "time.sleep(5)"
      [] OTHER -> l


\* str.rstrip() of one line
RStripLine(l) ==
    l


\* len() of one line
LineLen(l) ==
    CASE l \in {""} -> 0
      [] l \in {"{FENCE}"} -> 3
      [] l \in {"{FENCE}python"} -> 9
      [] l \in {"----------"} -> 10
      [] l \in {"def main():", "import time", "print('ok')"} -> 11
      [] l \in {"load_dotenv()", "time.sleep(5)"} -> 13
      [] l \in {"    time.sleep(5)"} -> 17
      [] l \in {"# Security - script", "# Security {EN DASH} script", "Here is the script:"} -> 19
      [] l \in {"from dotenv import load_dotenv"} -> 30

\* lines holding one of python_indicators (line 104)
HasIndicator == {"def main():", "from dotenv import load_dotenv", "import time", "print('ok')"}

\* lines holding '#!/usr/bin/env python', 'import ' or 'from ' once lowercased (110-113)
LooksLikeHeader == {"from dotenv import load_dotenv", "import time"}

\* line.strip().startswith('def ') (line 117)
StartsDef == {"def main():"}

\* sorted() order of the import statements that can be injected (134-147, 169)
ImportStatements ==
    << "from dotenv import load_dotenv",
       "import json",
       "import logging",
       "import os",
       "import re",
       "import requests",
       "import time" >>

\* the lines in which the usage patterns of an import statement occur (134-147)
Uses(imp) ==
    CASE imp = "import re" -> {}
      [] imp = "import os" -> {}
      [] imp = "import json" -> {}
      [] imp = "import time" -> {"    time.sleep(5)", "time.sleep(5)"}
      [] imp = "import requests" -> {}
      [] imp = "import logging" -> {}
      [] imp = "from dotenv import load_dotenv" -> {"from dotenv import load_dotenv", "load_dotenv()"}

\* stripped.startswith(('import ', 'from ')) (155, 185)
StartsImport == {"from dotenv import load_dotenv", "import time"}

\* stripped.startswith('#!/') (158)
StartsShebang == {}

\* stripped.startswith('#') (160, 187)
StartsComment == {"# Security - script", "# Security {EN DASH} script"}

\* 'from dotenv import load_dotenv' in line, 'load_dotenv()' in line (178)
HasDotenvImport == {"from dotenv import load_dotenv"}

HasDotenvCall == {"load_dotenv()"}

\* the start markers of the line scan (57-58, 66)
ScanStartFirst == {"def main():", "from dotenv import load_dotenv", "import time"}

ScanStartSecond == {"def main():"}

\* the end markers of the line scan (74-77, 81)
StartsExplanation == {}

StartsSeparator == {"----------"}

\* separator_patterns (line 31) and, for each, the lines it matches, always as a whole
separator_patterns == << "box", "dash", "equals", "underscore" >>
SeparatorLines(p) ==
    CASE p = "box" -> {}
      [] p = "dash" -> {"----------"}
      [] p = "equals" -> {}
      [] p = "underscore" -> {}

\* lines that end with an opening fence (three backquotes, then python or nothing,
\* then blanks), and lines that begin with three backquotes (line 41)
FenceOpen == {"{FENCE}", "{FENCE}python"}

FenceClose == {"{FENCE}", "{FENCE}python"}

\* lines holding one of the explanatory phrases once lowercased (92)
HasPhrase == {"Here is the script:"}

\* ------------------------------------------------------------------ texts
\* A text is the non-empty sequence of its lines (the result of str.split on the newline); the empty
\* string is the text of one empty line.
EmptyText == << "" >>

Min(a, b) == IF a < b THEN a ELSE b
Range(s) == { s[k] : k \in DOMAIN s }

RECURSIVE DropLeadingBlank(_)
DropLeadingBlank(t) ==
    IF t = << >> THEN << >>
    ELSE IF StripLine(Head(t)) = "" THEN DropLeadingBlank(Tail(t))
    ELSE t

RECURSIVE DropTrailingBlank(_)
DropTrailingBlank(t) ==
    IF t = << >> THEN << >>
    ELSE IF StripLine(t[Len(t)]) = "" THEN DropTrailingBlank(SubSeq(t, 1, Len(t) - 1))
    ELSE t

\* str.strip() of a text: the blank lines at both ends go, the first line
\* loses its indentation, the last line its trailing blanks.
strip(t) ==
    LET u == DropTrailingBlank(DropLeadingBlank(t)) IN
    IF u = << >> THEN EmptyText
    ELSE [k \in DOMAIN u |->
            LET a == IF k = 1 THEN LStripLine(u[k]) ELSE u[k]
            IN  IF k = Len(u) THEN RStripLine(a) ELSE a]

\* len() of a text: its lines and the newlines between them.
RECURSIVE len(_)
len(t) ==
    IF t = << >> THEN 0
    ELSE IF Len(t) = 1 THEN LineLen(t[1])
    ELSE LineLen(Head(t)) + 1 + len(Tail(t))

Contains(t, lineSet) == \E k \in DOMAIN t : t[k] \in lineSet

\* ------------------------------------------------- _is_valid_python_code
MinCodeLen == 20

_is_valid_python_code(code) ==
    IF code = EmptyText \/ len(code) < MinCodeLen THEN FALSE
    ELSE IF ~Contains(code, HasIndicator) THEN FALSE
    ELSE LET lines == strip(code) IN
         \/ \E k \in 1..Min(5, Len(lines)) : lines[k] \in LooksLikeHeader
         \/ \E k \in 1..Min(10, Len(lines)) : lines[k] \in StartsDef

\* ------------------------------------------------- _complete_python_code
\* The scan for the existing imports (lines 150-161): the import statements
\* of the leading block and the index after its last import or shebang line.
RECURSIVE ImportScan(_, _, _, _)
ImportScan(lines, k, existing, import_end_idx) ==
    IF k > Len(lines)
    THEN [existing_imports |-> existing, import_end_idx |-> import_end_idx]
    ELSE IF lines[k] \in StartsImport
    THEN ImportScan(lines, k + 1, existing \cup {StripLine(lines[k])}, k)
    ELSE IF lines[k] \in StartsShebang
    THEN ImportScan(lines, k + 1, existing, k)
    ELSE IF StripLine(lines[k]) # "" /\ lines[k] \notin StartsComment
    THEN [existing_imports |-> existing, import_end_idx |-> import_end_idx]
    ELSE ImportScan(lines, k + 1, existing, import_end_idx)

\* The scan for the place of the load_dotenv() call (lines 184-188).
RECURSIVE InsertIdx(_, _, _)
InsertIdx(lines, k, insert_idx) ==
    IF k > Len(lines) THEN insert_idx
    ELSE IF lines[k] \in StartsImport THEN InsertIdx(lines, k + 1, k)
    ELSE IF StripLine(lines[k]) # "" /\ lines[k] \notin StartsComment
    THEN insert_idx
    ELSE InsertIdx(lines, k + 1, insert_idx)

needed_imports(lines) ==
    { imp \in Range(ImportStatements) : Contains(lines, Uses(imp)) }

\* missing_imports = needed_imports - existing_imports
missing_importsIgnoringExisting(needed, existing) == needed
missing_imports(needed, existing) == needed \ existing

_complete_python_code(code) ==
    IF code = EmptyText THEN code
    ELSE
    LET lines == code
        scan == ImportScan(lines, 1, {}, 0)
        end == scan.import_end_idx
        missing == missing_imports(needed_imports(lines), scan.existing_imports)
        new_lines ==
            IF missing = {} THEN lines
            ELSE SubSeq(lines, 1, end)
                 \o SelectSeq(ImportStatements, LAMBDA imp : imp \in missing)
                 \o (IF end < Len(lines)
                     THEN << "" >> \o SubSeq(lines, end + 1, Len(lines))
                     ELSE << >>)
        result == strip(new_lines)
    IN  IF Contains(result, HasDotenvImport) /\ ~Contains(result, HasDotenvCall)
        THEN LET insert_idx == InsertIdx(result, 1, 0) IN
             SubSeq(result, 1, insert_idx)
             \o << "", "load_dotenv()" >>
             \o SubSeq(result, insert_idx + 1, Len(result))
        ELSE result

\* --------------------------------------------------- extract_python_code
Returned(t) == [exc |-> "none", text |-> t]
\* generate_fallback_security_code is neither defined nor imported in the
\* module: the call at line 94 raises NameError.
generate_fallback_security_code == [exc |-> "NameError", text |-> EmptyText]

FixUnicode(t) == [k \in DOMAIN t |-> FixUnicodeLine(t[k])]

\* parts = re.split(sep_pattern, response); len(parts) >= 3; parts[1].strip()
SeparatorAt(t, p) == { k \in DOMAIN t : t[k] \in SeparatorLines(p) }
HasMiddlePart(t, p) == Cardinality(SeparatorAt(t, p)) >= 2
MiddlePart(t, p) ==
    LET a == CHOOSE k \in SeparatorAt(t, p) :
                 \A m \in SeparatorAt(t, p) : k <= m
        b == CHOOSE k \in SeparatorAt(t, p) \ {a} :
                 \A m \in SeparatorAt(t, p) \ {a} : k <= m
    IN  strip(SubSeq(t, a + 1, b - 1))

\* The first separator pattern, from index n on, whose middle part is valid;
\* 0 if there is none.
RECURSIVE FirstValidSeparator(_, _)
FirstValidSeparator(t, n) ==
    IF n > Len(separator_patterns) THEN 0
    ELSE IF /\ HasMiddlePart(t, separator_patterns[n])
            /\ _is_valid_python_code(MiddlePart(t, separator_patterns[n]))
    THEN n
    ELSE FirstValidSeparator(t, n + 1)

\* re.findall(code_block_pattern, response, re.DOTALL), lines 41-42: the match
\* that opens at line open.  The blanks after the opening fence are matched
\* greedily: they take as many of the blank lines after the opening line as
\* leave a closing fence to be found; the contents are matched lazily: they
\* end before the first later line that begins with three backquotes.
RECURSIVE BlankRun(_, _)
BlankRun(t, k) ==
    IF k > Len(t) \/ StripLine(t[k]) # "" THEN 0 ELSE 1 + BlankRun(t, k + 1)

Closers(t, from) == { j \in DOMAIN t : j >= from /\ t[j] \in FenceClose }
FirstCloser(t, from) ==
    CHOOSE j \in Closers(t, from) : \A m \in Closers(t, from) : j <= m

Skips(t, open) ==
    IF open >= Len(t) \/ t[open] \notin FenceOpen THEN {}
    ELSE { m \in 0..BlankRun(t, open + 1) : Closers(t, open + m + 2) # {} }
Skip(t, open) == CHOOSE m \in Skips(t, open) : \A n \in Skips(t, open) : n <= m

\* The contents of the code blocks found from line open on, in order.
RECURSIVE CodeBlocks(_, _)
CodeBlocks(t, open) ==
    IF open > Len(t) THEN << >>
    ELSE IF Skips(t, open) = {} THEN CodeBlocks(t, open + 1)
    ELSE LET first == open + Skip(t, open) + 1
             close == FirstCloser(t, first + 1)
         IN  << SubSeq(t, first, close - 1) >> \o CodeBlocks(t, close + 1)

\* for match in matches: cleaned = match.strip(); the matches that are valid
ValidBlocksSkipped(t) == << >>
ValidBlocks(t) ==
    SelectSeq(CodeBlocks(t, 1), LAMBDA b : _is_valid_python_code(strip(b)))

\* The line scan (lines 50-89).
ScanOffset == 10

Starts(t, lineSet) == { k \in DOMAIN t : t[k] \in lineSet }
First(S) == CHOOSE k \in S : \A m \in S : k <= m

start_idx(lines) ==
    IF Starts(lines, ScanStartFirst) # {} THEN First(Starts(lines, ScanStartFirst))
    ELSE IF Starts(lines, ScanStartSecond) # {}
    THEN First(Starts(lines, ScanStartSecond))
    ELSE 0

Ends(lines, start) ==
    { k \in DOMAIN lines :
        /\ k >= start + ScanOffset
        /\ \/ lines[k] \in StartsExplanation
           \/ lines[k] \in StartsSeparator }
end_idx(lines, start) ==
    IF Ends(lines, start) # {} THEN First(Ends(lines, start)) - 1 ELSE Len(lines)

extract_python_code(ai_response) ==
    LET response == FixUnicode(ai_response)
        sep == FirstValidSeparator(response, 1)
        blocks == ValidBlocks(response)
        start == start_idx(response)
    IN  IF sep # 0
        THEN Returned(_complete_python_code(
                          MiddlePart(response, separator_patterns[sep])))
        ELSE IF blocks # << >>
        THEN Returned(_complete_python_code(strip(blocks[1])))
        ELSE IF start # 0
        THEN Returned(_complete_python_code(
                 strip(SubSeq(response, start, end_idx(response, start)))))
        ELSE IF Contains(response, HasPhrase)
        THEN generate_fallback_security_code
        ELSE Returned(strip(response))

\* ------------------------------------------------- the normalizer, applied
\* The input texts: every text of at most MaxLen of the lines above; the text
\* of one empty line is the empty string.
Inputs == UNION { [1..n -> InputLines] : n \in 1..MaxLen }

\* code = extract_python_code(response)
call_extract_python_code ==
    /\ npc = "input"
    /\ npc' = "extracted"
    /\ first_pass' = extract_python_code(normalizer_input)
    /\ UNCHANGED << normalizer_input, second_pass, flowAll, orchVars >>

\* extract_python_code applied to the text it returned
call_extract_python_code_again ==
    /\ npc = "extracted"
    /\ first_pass.exc = "none"
    /\ npc' = "extracted_twice"
    /\ second_pass' = extract_python_code(first_pass.text)
    /\ UNCHANGED << normalizer_input, first_pass, flowAll, orchVars >>

\* _complete_python_code(code)
call_complete_python_code ==
    /\ npc = "input"
    /\ npc' = "completed"
    /\ first_pass' = Returned(_complete_python_code(normalizer_input))
    /\ UNCHANGED << normalizer_input, second_pass, flowAll, orchVars >>

\* _complete_python_code applied to the text it returned
call_complete_python_code_again ==
    /\ npc = "completed"
    /\ npc' = "completed_twice"
    /\ second_pass' = Returned(_complete_python_code(first_pass.text))
    /\ UNCHANGED << normalizer_input, first_pass, flowAll, orchVars >>

NormNext ==
    \/ call_extract_python_code
    \/ call_extract_python_code_again
    \/ call_complete_python_code
    \/ call_complete_python_code_again

NormInit ==
    /\ FlowInit
    /\ metric_name = "security"
    /\ normalizer_input \in Inputs
    /\ npc = "input"
    /\ first_pass = NoResult
    /\ second_pass = NoResult

NormSpec == NormInit /\ [][NormNext]_vars

Lines == InputLines \cup {"# Security - script", "time.sleep(5)", "load_dotenv()"}
             \cup Range(ImportStatements)
IsText(t) == t # << >> /\ \A k \in DOMAIN t : t[k] \in Lines
IsResult(r) ==
    \/ r = NoResult
    \/ r = generate_fallback_security_code
    \/ r.exc = "none" /\ IsText(r.text)

NormTypeOK ==
    /\ npc \in {"idle", "input", "extracted", "extracted_twice",
                "completed", "completed_twice"}
    /\ normalizer_input \in Inputs
    /\ IsResult(first_pass)
    /\ IsResult(second_pass)


\* ========================================================= unassisted_flow
\* The flow of one Analysis stage (security.py 608-759).  It uses the in-session
\* history only, writes no snapshot and no chat history, and persists one
\* strategy record after a successful stage.
unassistedFixed == << metric_name, for_training_chat_history,
                      quarantine_code_output, normVars, orchVars >>

NoneValue == "None"        \* notif_str is None

RagUnable ==
    [summary |-> "Unable to retrieve a relevant security strategy from RAG handler...",
     start_metric_state |-> "Unable to retrieve a relevant security strategy from RAG handler...",
     end_metric_state |-> "Unable to retrieve a relevant security strategy from RAG handler..."]

\* if not success: ... return
ReturnsEarlyNever(succ) == FALSE
ReturnsEarly(succ) == ~succ

\* The StrategyInsertData of the unassisted flow.
UnassistedInsertData(outcome) ==
    [op |-> "insert_strategy_and_result",
     arg |-> outcome,
     flow_type |-> "unassisted_security_monitoring"]

\* agent.reset() and the start metric state.
unassisted_flow ==
    /\ pc \in {"idle", "returned", "raised"}
    /\ cycle < MaxCycles
    /\ cycle' = cycle + 1
    /\ \E ns \in {NoneValue, "", "notif"} : notif_str' = ns
    /\ chat_history' = << >>
    /\ new_ch' = << >>
    /\ rag_result' = RagEmpty
    /\ ragQuery' = "none"
    /\ db' = << >>
    /\ stage' = 0
    /\ i' = 0
    /\ err_acc' = << >>
    /\ regen' = FALSE
    /\ success' = FALSE
    /\ genCalls' = 0
    /\ regenCalls' = 0
    /\ runCalls' = 0
    /\ stageStatus' = [s \in Stages |-> "idle"]
    /\ attempts' = << >>
    /\ regenLog' = << >>
    /\ \E raised \in BOOLEAN : pc' = IF raised THEN "raised" ELSE "rag"
    /\ UNCHANGED unassistedFixed

\* The try block of lines 645-662: the assertions and the memory query; every
\* failure is caught and replaced by the placeholders.
unassisted_relevant_strategy_raw ==
    /\ pc = "rag"
    /\ IF notif_str = NoneValue
       THEN /\ ragQuery' = "skipped"
            /\ rag_result' = RagUnable
       ELSE \E r \in {"found", "empty", "raised"} :
               /\ ragQuery' = r
               /\ rag_result' = IF r = "found" THEN RagFound ELSE RagUnable
    /\ pc' = "prepare"
    /\ UNCHANGED << unassistedFixed, cycle, notif_str, stage, loopVars, new_ch,
                    chat_history, db, ghostVars >>

\* new_ch = agent.prepare_system(...); agent.chat_history += new_ch
unassisted_prepare_system ==
    /\ pc = "prepare"
    /\ \E raised \in BOOLEAN :
          IF raised
          THEN /\ pc' = "raised"
               /\ UNCHANGED << stage, loopVars, new_ch, chat_history, ghostVars >>
          ELSE /\ new_ch' = << Turn(0, NoResponse) >>
               /\ chat_history' = chat_history \o new_ch'
               /\ StageInit(Analysis)
               /\ pc' = "attempt"
    /\ UNCHANGED << unassistedFixed, cycle, notif_str, rag_result, ragQuery, db >>

\* What follows a generation step of the unassisted flow: the delta goes to
\* the in-session history and the sandbox step follows, or the failed result
\* is caught.
UnassistedAfterGeneration(res, e, nc) ==
    IF AfterGen(res, Analysis) = "except"
    THEN /\ ExceptUnwrapError(e)
         /\ UNCHANGED chat_history
    ELSE /\ chat_history' = chat_history \o nc
         /\ pc' = "run"
         /\ UNCHANGED loopVars

\* gen_analysis_code_on_first or, with a previous strategy, gen_analysis_code
unassisted_gen_first ==
    /\ pc = "attempt"
    /\ ~regen
    /\ genCalls' = genCalls + 1
    /\ \E res \in {"ok", "err", "raise"}, e \in Errors, withResp \in BOOLEAN :
          /\ res = "ok" => (e = 1 /\ withResp)
          /\ res = "raise" => (e = 1 /\ withResp)
          /\ IF res # "ok" /\ ~ExceptCatches(res)
             THEN /\ pc' = "raised"
                  /\ stageStatus' = [stageStatus EXCEPT ![stage] = "raised"]
                  /\ UNCHANGED << loopVars, new_ch, chat_history, attempts >>
             ELSE /\ new_ch' = << Turn(stage, IF withResp THEN stage ELSE NoResponse) >>
                  /\ attempts' = Append(attempts,
                                   Attempt("gen", res, IF res = "err" THEN e ELSE 0,
                                           IF withResp THEN stage ELSE NoResponse,
                                           IF res = "ok" THEN stage ELSE NoResponse))
                  /\ UnassistedAfterGeneration(res, e, new_ch')
                  /\ UNCHANGED stageStatus
    /\ UNCHANGED << unassistedFixed, cycle, notif_str, rag_result, ragQuery, stage,
                    db, regenCalls, runCalls, regenLog >>

\* agent.regen_on_error(errors=err_acc, latest_response=new_ch.get_latest_response())
unassisted_regen_on_error ==
    /\ pc = "attempt"
    /\ regen
    /\ regenCalls' = regenCalls + 1
    /\ regenLog' = Append(regenLog,
                     [attempt |-> i + 1,
                      errors |-> err_acc,
                      latest_response |-> RegenLatestArg(new_ch, chat_history),
                      session_latest |-> get_latest_response(chat_history)])
    /\ \E res \in {"ok", "err", "raise"}, e \in Errors :
          /\ res # "err" => e = 1
          /\ IF res # "ok" /\ ~ExceptCatches(res)
             THEN /\ pc' = "raised"
                  /\ stageStatus' = [stageStatus EXCEPT ![stage] = "raised"]
                  /\ UNCHANGED << loopVars, chat_history, attempts >>
             ELSE /\ attempts' = Append(attempts,
                                   Attempt("regen", res, IF res = "err" THEN e ELSE 0,
                                           NoResponse,
                                           IF res = "ok" THEN RegenResponse(i + 1)
                                           ELSE NoResponse))
                  /\ UnassistedAfterGeneration(res, e, new_ch)
                  /\ UNCHANGED stageStatus
    /\ UNCHANGED << unassistedFixed, cycle, notif_str, rag_result, ragQuery, stage,
                    new_ch, db, genCalls, runCalls >>

\* extract_python_code, then container_manager.run_code_in_con and its unwrap.
unassisted_run_code_in_con ==
    /\ pc = "run"
    /\ runCalls' = runCalls + 1
    /\ \E res \in {"ok", "err", "raise"}, e \in Errors :
          /\ res # "err" => e = 1
          /\ attempts' = [attempts EXCEPT ![Len(attempts)] =
                            [@ EXCEPT !.run = res,
                                      !.err = IF res = "err" THEN e ELSE @]]
          /\ CASE res # "ok" /\ ~ExceptCatches(res) ->
                    /\ pc' = "raised"
                    /\ stageStatus' = [stageStatus EXCEPT ![stage] = "raised"]
                    /\ UNCHANGED loopVars
               [] ExceptCatches(res) ->
                    /\ ExceptUnwrapError(e)
                    /\ UNCHANGED stageStatus
               [] res = "ok" ->
                    /\ SuccessBreak
                    /\ UNCHANGED stageStatus
    /\ UNCHANGED << unassistedFixed, cycle, notif_str, rag_result, ragQuery, stage,
                    new_ch, chat_history, db, genCalls, regenCalls, regenLog >>

\* if not success: ... return
unassisted_exhausted_return ==
    /\ pc = "stage_end"
    /\ ReturnsEarly(success)
    /\ pc' = "returned"
    /\ stageStatus' = [stageStatus EXCEPT ![stage] = "exhausted"]
    /\ UNCHANGED << unassistedFixed, cycle, notif_str, rag_result, ragQuery, stage,
                    loopVars, new_ch, chat_history, db,
                    genCalls, regenCalls, runCalls, attempts, regenLog >>

\* end_metric_state = str(agent.sensor.get_metric_fn(metric_name)()) and the
\* summarizer call.
unassisted_end_metric_state ==
    /\ pc = "stage_end"
    /\ ~ReturnsEarly(success)
    /\ \E raised \in BOOLEAN : pc' = IF raised THEN "raised" ELSE "insert_strategy"
    /\ stageStatus' = [stageStatus EXCEPT ![stage] =
                          IF success THEN "succeeded" ELSE "exhausted"]
    /\ UNCHANGED << unassistedFixed, cycle, notif_str, rag_result, ragQuery, stage,
                    loopVars, new_ch, chat_history, db,
                    genCalls, regenCalls, runCalls, attempts, regenLog >>

\* agent.db.insert_strategy_and_result(...)
unassisted_insert_strategy_and_result ==
    /\ pc = "insert_strategy"
    /\ \E raised \in BOOLEAN :
          IF raised
          THEN pc' = "raised" /\ db' = db
          ELSE /\ pc' = "returned"
               /\ db' = Append(db, UnassistedInsertData(Outcome(success)))
    /\ UNCHANGED << unassistedFixed, cycle, notif_str, rag_result, ragQuery, stage,
                    loopVars, new_ch, chat_history, ghostVars >>

UnassistedNext ==
    \/ unassisted_flow
    \/ unassisted_relevant_strategy_raw
    \/ unassisted_prepare_system
    \/ unassisted_gen_first
    \/ unassisted_regen_on_error
    \/ unassisted_run_code_in_con
    \/ unassisted_exhausted_return
    \/ unassisted_end_metric_state
    \/ unassisted_insert_strategy_and_result

UnassistedSpec == Init /\ [][UnassistedNext]_vars

UnassistedTypeOK ==
    /\ pc \in {"idle", "rag", "prepare", "attempt", "run", "stage_end",
               "insert_strategy", "returned", "raised"}
    /\ stage \in {0, Analysis}
    /\ i \in 0..MaxAttempts
    /\ cycle \in 0..MaxCycles
    /\ notif_str \in {NoneValue, "", "notif"}
    /\ Len(db) <= 1
    /\ for_training_chat_history = << >>

\* =================================================================== claims
Failed(a) == a.gen = "err" \/ a.run = "err"

AllAttemptsFailed ==
    /\ Len(attempts) >= 3
    /\ \A k \in 1..3 : Failed(attempts[k])

FlowFinished == pc \in {"returned", "raised"}

Writes(op, arg) == { k \in DOMAIN db : db[k].op = op /\ db[k].arg = arg }
WritesOf(op) == { k \in DOMAIN db : db[k].op = op }

EarlierSucceeded(s) == \A t \in Stages : t < s => stageStatus[t] = "succeeded"
LaterIdle(s) == \A t \in Stages : t > s => stageStatus[t] = "idle"

\* C1: in every stage, when all three attempts fail (in the generation step or
\* in the sandbox run), the first-attempt generator was called exactly once,
\* regenerate exactly twice (attempts 2 and 3), there is no fourth attempt and
\* the stage ends as exhausted.
C1_AllFailExhausts ==
    (stage \in Stages /\ AllAttemptsFailed) =>
        /\ Len(attempts) = 3
        /\ genCalls = 1
        /\ regenCalls = 2
        /\ attempts[1].fn = "gen"
        /\ attempts[2].fn = "regen"
        /\ attempts[3].fn = "regen"
        /\ ~success
        /\ pc \in {"stage_end", "returned", "log_output", "raised"}
        /\ pc # "stage_end" => stageStatus[stage] = "exhausted"

C1_Witness ==
    /\ stage = Research
    /\ AllAttemptsFailed
    /\ attempts[1].gen = "err"
    /\ attempts[2].run = "err"
    /\ stageStatus[Research] = "exhausted"

\* C2: a success on attempt k ends the stage's loop at once: no generator,
\* regenerate or sandbox call of that stage follows, and regenerate was called
\* exactly k-1 times.
C2_SuccessStopsLoop ==
    /\ [](success =>
            /\ pc \notin {"attempt", "run"}
            /\ genCalls = 1
            /\ regenCalls = Len(attempts) - 1
            /\ Len(attempts) \in 1..3)
    /\ [][(success /\ stage' = stage /\ cycle' = cycle) =>
            /\ genCalls' = genCalls
            /\ regenCalls' = regenCalls
            /\ runCalls' = runCalls]_vars

C2_Witness ==
    /\ success
    /\ stage = Analysis
    /\ Len(attempts) = 2
    /\ regenCalls = 1
    /\ pc = "stage_end"

\* C3 (as claimed): when Analysis, Strategy and Threat Research succeed and all
\* three Remediation attempts fail, the finished cycle has called
\* insert_strategy_and_result exactly once, with outcome 'failed'.
C3_FailedOutcomePersisted ==
    (/\ FlowFinished
     /\ stage = Remediation
     /\ EarlierSucceeded(Remediation)
     /\ AllAttemptsFailed) =>
        /\ Cardinality(WritesOf("insert_strategy_and_result")) = 1
        /\ Cardinality(Writes("insert_strategy_and_result", "failed")) = 1

\* C4 (as claimed): when Remediation exhausts its three attempts, the finished
\* cycle (metric 'security') has inserted both snapshots, start and end.
C4_BothSnapshotsOnExhaustion ==
    (/\ FlowFinished
     /\ metric_name = "security"
     /\ stage = Remediation
     /\ AllAttemptsFailed) =>
        /\ Cardinality(WritesOf("insert_wallet_snapshot")) = 2
        /\ Cardinality(Writes("insert_wallet_snapshot", "start")) = 1
        /\ Cardinality(Writes("insert_wallet_snapshot", "end")) = 1

\* C5: when Analysis, Strategy or Threat Research exhausts its attempts the
\* cycle is aborted: the flow returns, no later stage is started, and the
\* cycle has no insert_chat_history, no end snapshot and no
\* insert_strategy_and_result.
C5_ExhaustionAborts ==
    \A s \in {Analysis, Strategy, Research} :
        stageStatus[s] = "exhausted" =>
            /\ pc = "returned"
            /\ stage = s
            /\ LaterIdle(s)
            /\ WritesOf("insert_chat_history") = {}
            /\ Writes("insert_wallet_snapshot", "end") = {}
            /\ WritesOf("insert_strategy_and_result") = {}

C5_Witness ==
    /\ stageStatus[Strategy] = "exhausted"
    /\ stageStatus[Analysis] = "succeeded"
    /\ pc = "returned"

\* C6: the stages of a cycle run in the order Analysis, Strategy, Threat
\* Research, Remediation: a stage is started only when every earlier stage has
\* succeeded, and every attempt belongs to the latest stage started.
C6_StageOrder ==
    /\ [](\A s \in Stages :
            stageStatus[s] # "idle" => EarlierSucceeded(s))
    /\ [][(\/ genCalls' > genCalls
           \/ regenCalls' > regenCalls
           \/ runCalls' > runCalls) =>
            /\ stage' = stage
            /\ stage \in Stages
            /\ stageStatus[stage] = "running"
            /\ EarlierSucceeded(stage)
            /\ LaterIdle(stage)]_vars

C6_Witness ==
    /\ stage = Remediation
    /\ genCalls = 1
    /\ EarlierSucceeded(Remediation)
    /\ stageStatus[Remediation] = "running"

\* C7: every persisted StrategyRecord has outcome 'success' exactly when some
\* Remediation attempt's sandbox run returned output, and 'failed' otherwise.
RemediationRunReturned ==
    /\ stage = Remediation
    /\ \E k \in DOMAIN attempts : attempts[k].run = "ok"

C7_OutcomeMatchesSandbox ==
    \A k \in WritesOf("insert_strategy_and_result") :
        /\ db[k].arg \in {"success", "failed"}
        /\ db[k].arg = "success" <=> RemediationRunReturned

C7_Witness ==
    /\ Writes("insert_strategy_and_result", "success") # {}
    /\ RemediationRunReturned
    /\ Len(attempts) = 2

\* C8: a failed generation step is handled like a failed sandbox run: it
\* consumes one of the three attempts, its error is appended to the
\* accumulated error text, the next attempt regenerates, and no sandbox run is
\* made for that attempt.
C8_GenerationFailureIsRetried ==
    /\ Len(attempts) <= 3
    /\ \A k \in DOMAIN attempts :
          /\ attempts[k].gen = "err" => attempts[k].run = "none"
          /\ Failed(attempts[k]) =>
                /\ i >= k
                /\ regen
                /\ Len(err_acc) >= 2 * k
                /\ err_acc[2 * k - 1] = NL
                /\ err_acc[2 * k] = attempts[k].err
                /\ k < Len(attempts) => attempts[k + 1].fn = "regen"

C8_Witness ==
    /\ Len(attempts) = 3
    /\ attempts[1].fn = "gen"
    /\ attempts[1].gen = "err"
    /\ attempts[2].fn = "regen"
    /\ attempts[2].gen = "err"
    /\ attempts[3].run = "ok"
    /\ runCalls = 1

\* C9: the error text a regenerate call of attempt n receives is the
\* concatenation, in attempt order and each preceded by a newline, of the
\* errors of attempts 1..n-1 of the same stage.
RECURSIVE ErrorsUpTo(_)
ErrorsUpTo(n) ==
    IF n = 0 THEN << >>
    ELSE ErrorsUpTo(n - 1) \o << NL, attempts[n].err >>

C9_RegenGetsAllErrors ==
    \A k \in DOMAIN regenLog :
        /\ regenLog[k].attempt = k + 1
        /\ regenLog[k].attempt \in {2, 3}
        /\ regenLog[k].attempt - 1 <= Len(attempts)
        /\ regenLog[k].errors = ErrorsUpTo(regenLog[k].attempt - 1)

C9_Witness ==
    /\ stage = Research
    /\ Len(regenLog) = 2
    /\ regenLog[2].errors = << NL, 2, NL, 1 >>
    /\ attempts[1].gen = "err"
    /\ attempts[2].run = "err"

\* C10 (as claimed): every regenerate call receives as latest_response the
\* most recent response of the in-session history at the moment of the call.
C10_LatestResponseFromSession ==
    \A k \in DOMAIN regenLog :
        regenLog[k].latest_response = regenLog[k].session_latest

\* C10 (amended): every regenerate call receives the most recent response of
\* new_ch, the delta returned by the stage's first-attempt generator call,
\* whether or not that delta was appended to the in-session history.
C10_LatestResponseFromDelta ==
    \A k \in DOMAIN regenLog :
        /\ attempts[1].fn = "gen"
        /\ regenLog[k].latest_response = attempts[1].resp

C10_Witness ==
    /\ stage = Remediation
    /\ Len(regenLog) = 2
    /\ attempts[1].gen = "ok"
    /\ regenLog[2].latest_response = Remediation
    /\ regenLog[2].session_latest = Research
\* C11 (as claimed): the Remediation chat update is appended to the
\* in-session history and left out of the training history that
\* insert_chat_history persists.
TurnsOf(ch, s) == { j \in DOMAIN ch : ch[j].stage = s }

RemediationGenerated ==
    /\ stage = Remediation
    /\ \E k \in DOMAIN attempts : attempts[k].gen = "ok"

C11_RemediationInSessionOnly ==
    /\ RemediationGenerated =>
          /\ TurnsOf(chat_history, Remediation) # {}
          /\ TurnsOf(for_training_chat_history, Remediation) = {}
    /\ \A k \in WritesOf("insert_chat_history") :
          TurnsOf(db[k].arg, Remediation) = {}

\* C11 (amended): the Remediation chat update is appended to the training
\* history, once per attempt whose generation step succeeded, and is persisted
\* with it by insert_chat_history; it is never appended to the in-session
\* history.
C11_RemediationTrainingOnly ==
    /\ TurnsOf(chat_history, Remediation) = {}
    /\ RemediationGenerated =>
          Cardinality(TurnsOf(for_training_chat_history, Remediation)) =
             Cardinality({ k \in DOMAIN attempts : attempts[k].gen = "ok" })
    /\ \A k \in WritesOf("insert_chat_history") :
          /\ db[k].arg = for_training_chat_history
          /\ TurnsOf(db[k].arg, Remediation) # {}

C11_Witness ==
    /\ WritesOf("insert_chat_history") # {}
    /\ TurnsOf(for_training_chat_history, Remediation) # {}
    /\ TurnsOf(chat_history, Research) # {}
    /\ TurnsOf(chat_history, Remediation) = {}
\* C19: if the memory relevance query raises, the fixed error placeholders are
\* used for summary and before/after metric state, the error does not leave
\* assisted_flow, and the flow goes on to the system prompt and the Analysis
\* stage.
C19_RagErrorUsesPlaceholders ==
    /\ [](ragQuery = "raised" =>
            /\ notif_str # ""
            /\ rag_result.summary =
                  "Error retrieving security strategies from RAG..."
            /\ rag_result.start_metric_state =
                  "Error retrieving previous security state..."
            /\ rag_result.end_metric_state =
                  "Error retrieving previous security results...")
    /\ [][(ragQuery # "raised" /\ ragQuery' = "raised") =>
            /\ pc = "rag"
            /\ pc' = "prepare"]_vars
    /\ [](stage = Analysis => ragQuery \in {"skipped", "found", "empty", "raised"})

C19_Witness ==
    /\ ragQuery = "raised"
    /\ stage = Analysis
    /\ genCalls = 1
    /\ pc \in {"run", "attempt", "stage_end"}
\* ------------------------------------------------ claims on the orchestrator
CycleErrors ==
    {"fetch_latest_strategy", "fetch_latest_notification_str_v2", "flow",
     "add_cycle_count"}

LoopExited == {"finally", "done", "propagated"}

\* C12: an exception other than an interrupt raised in a loop iteration (the
\* prior-strategy fetch, the notification fetch, the flow, the cycle-count
\* update) is caught inside the loop and followed by the 60-second cooldown,
\* after which the loop starts another iteration; the loop is never left
\* because of such an error.
C12_ErrorsCoolDownAndContinue ==
    /\ [](loopExit # "none" => interruptedAt # "none")
    /\ [](opc = "cooldown" => iter.raisedAt \in CycleErrors)
    /\ [][(/\ iter'.raisedAt \in CycleErrors
           /\ iter'.raisedAt # iter.raisedAt \/ cycle_count' # cycle_count) =>
             /\ opc' = "cooldown"
             /\ loopExit' = "none"]_vars
    /\ [][(opc = "cooldown" /\ interruptedAt' = "none"
             /\ monitor_polls' = monitor_polls) =>
             /\ opc' = "iter_begin"
             /\ loopExit' = "none"]_vars

C12_Witness ==
    /\ prevCooled
    /\ cycle_count = 2
    /\ opc = "flow_stages"
    /\ interruptedAt = "none"

\* C13 (as claimed): an interrupt request delivered at any point of the loop
\* (in a cycle, in the inter-cycle sleep or in the cooldown sleep) ends the
\* loop through its interrupt branch, and no exception leaves
\* run_cycle_with_background_monitor.
C13_InterruptEndsLoopCleanly ==
    (interruptedAt # "none" /\ opc \in LoopExited) =>
        loopExit = "interrupt_branch"

\* C14 (as claimed): an interrupt that arrives while a cycle is in flight does
\* not cancel the cycle: the flow completes before the loop exits.
C14_InterruptLetsCycleFinish ==
    (interruptedAt \in FlowPositions /\ opc \in LoopExited) =>
        iter.flow \in {"returned", "raised"}

\* C14 (amended): an interrupt that arrives while a cycle is in flight is not
\* held back by the loop.  Raised as KeyboardInterrupt inside the flow it
\* abandons the cycle where it is: the flow does not complete, the cycle count
\* is not updated and the loop is left through its interrupt branch.  Only a
\* cancellation of the main task leaves the running flow alone, and it then
\* never ends the loop through the interrupt branch.  In both cases the monitor
\* is stopped only after the loop has been left.
C14_InterruptAbandonsCycle ==
    /\ (interruptedAt \in FlowPositions /\ delivery = "KeyboardInterrupt") =>
          /\ iter.flow = "interrupted"
          /\ ~iter.counted
          /\ loopExit = "interrupt_branch"
          /\ opc \in LoopExited
    /\ (interruptedAt \in FlowPositions /\ delivery = "cancel_requested") =>
          /\ iter.flow # "interrupted"
          /\ loopExit # "interrupt_branch"
          /\ exc \in {"none", "CancelledError", "Exception"}
    /\ stopCalls > 0 =>
          /\ loopExit # "none"
          /\ opc \in {"done", "propagated"}

C14_Witness ==
    /\ interruptedAt = "flow_persist"
    /\ delivery = "KeyboardInterrupt"
    /\ iter.flow = "interrupted"
    /\ stopCalls = 1
    /\ opc = "done"

\* C15: when the monitor started successfully, it was started before the first
\* cycle, and stop_monitoring is called exactly once, after the loop has been
\* left (by the interrupt branch or by an exception), never while the loop runs.
C15_MonitorStoppedOnceAfterLoop ==
    /\ stopCalls <= 1
    /\ cycle_count >= 1 => background_monitor # "unset"
    /\ stopCalls = 1 =>
          /\ background_monitor = "present"
          /\ loopExit # "none"
          /\ opc \in {"done", "propagated"}
    /\ (background_monitor = "present" /\ opc \in {"done", "propagated"}) =>
          /\ stopCalls = 1
          /\ loopExit \in {"interrupt_branch", "exception"}

C15_Witness ==
    /\ background_monitor = "present"
    /\ stopCalls = 1
    /\ loopExit = "exception"
    /\ opc = "propagated"
    /\ cycle_count = 2

\* C16: if starting the monitor raises, the loop is still entered with the
\* monitor absent: no status read is made in any cycle, no threat summary is
\* prepended, stop_monitoring is never called and the failure does not
\* propagate.
C16_AbsentMonitorIsSkipped ==
    /\ [](background_monitor = "none" =>
            /\ iter.pre \in {"none", "skipped"}
            /\ iter.post \in {"none", "skipped"}
            /\ iter.threats = 0
            /\ current_notif \in {<< >>, << "digest" >>}
            /\ iter.notif \in {<< >>, << "digest" >>}
            /\ stopCalls = 0
            /\ opc = "propagated" => loopExit = "exception")
    /\ [][(background_monitor = "unset" /\ background_monitor' = "none") =>
            /\ opc' = "start_incoming"
            /\ exc' = "none"]_vars

C16_Witness ==
    /\ background_monitor = "none"
    /\ cycle_count = 10
    /\ iter.pre = "skipped"
    /\ iter.post = "skipped"
    /\ iter.digest = "digest"
    /\ opc = "sleep"

\* C17: a failing status read (before the cycle or at every 10th cycle) is
\* caught where it is made: the notification text stays as fetched, the flow
\* still runs in that iteration, and the read does not trigger the cooldown.
AfterFlow == {"add_cycle_count", "status", "sleep"}

C17_StatusReadFailureIsLocal ==
    /\ [](iter.raisedAt # "get_monitoring_status")
    /\ [](iter.pre = "failed" =>
            /\ opc # "enhance"
            /\ iter.flow = "notrun" => current_notif = DigestText(iter.digest)
            /\ iter.flow # "notrun" => iter.notif = DigestText(iter.digest)
            /\ opc \in AfterFlow => iter.flow = "returned"
            /\ opc = "cooldown" => iter.raisedAt \in {"flow", "add_cycle_count"})
    /\ [](iter.post = "failed" =>
            /\ iter.flow = "returned"
            /\ iter.counted
            /\ opc # "cooldown")
    /\ [][(iter.pre # "failed" /\ iter'.pre = "failed") =>
            opc' = "flow_call"]_vars
    /\ [][(iter.post # "failed" /\ iter'.post = "failed") =>
            opc' = "sleep"]_vars

C17_Witness ==
    /\ iter.pre = "failed"
    /\ iter.digest = "digest"
    /\ iter.flow = "returned"
    /\ iter.post = "failed"
    /\ opc = "sleep"

\* C18: the notification text handed to the flow begins with the monitor's
\* threat summary exactly when a monitor is present, its status read succeeded
\* and threats_discovered is greater than 0; otherwise it is the storage
\* digest unchanged.
SummaryDue ==
    /\ background_monitor = "present"
    /\ iter.pre = "ok"
    /\ iter.threats > 0

C18_SummaryPrependedIffThreats ==
    iter.flow # "notrun" =>
        /\ SummaryDue =>
              /\ iter.notif # << >>
              /\ iter.notif[1] = Summary
              /\ iter.notif = IF iter.digest = "digest"
                              THEN << Summary, Separator, "digest" >>
                              ELSE << Summary >>
        /\ ~SummaryDue => iter.notif = DigestText(iter.digest)

C18_Witness ==
    /\ iter.flow = "returned"
    /\ iter.threats = 2
    /\ iter.notif = << Summary, Separator, "digest" >>

\* C20 (as claimed): if the notification lookup fails in a cycle, that same
\* cycle continues and runs the stage pipeline on a placeholder text.
C20_NotifFailureContinuesCycle ==
    iter.digest = "failed" =>
        \/ opc \in {"enhance", "flow_call"} \cup FlowPositions \cup AfterFlow
        \/ iter.flow # "notrun"

\* C20 (amended): if the notification lookup raises in a cycle, the exception
\* is caught by the loop's handler: that iteration runs no status read and no
\* flow and does not update the cycle count, and after the cooldown the loop
\* starts the next iteration.
C20_NotifFailureSkipsCycle ==
    /\ [](iter.digest = "failed" =>
            /\ iter.pre = "none"
            /\ iter.flow = "notrun"
            /\ ~iter.counted
            /\ iter.raisedAt \in {"fetch_latest_notification_str_v2", "interrupt"}
            /\ interruptedAt = "none" =>
                  /\ opc \in {"cooldown", "iter_begin"}
                  /\ loopExit = "none")
    /\ [][(iter.digest = "failed" /\ opc = "cooldown"
             /\ interruptedAt' = "none"
             /\ monitor_polls' = monitor_polls) =>
            opc' = "iter_begin"]_vars

C20_Witness ==
    /\ iter.digest = "failed"
    /\ prevCooled
    /\ opc = "iter_begin"
    /\ cycle_count = 1

\* ------------------------------------------- claims on the flow's persistence
PipelineCompleted ==
    /\ pc = "returned"
    /\ stageStatus[Remediation] = "succeeded"

AfterMemoryStep == {"prepare", "attempt", "run", "stage_end", "log_output",
                    "insert_chat", "end_snapshot", "insert_strategy", "returned"}

\* C21: when the notification text given to the flow is empty, the memory
\* relevance query is not called, the fixed "No previous security strategies
\* found..." placeholder is used, and a cycle whose pipeline completes has
\* persisted one strategy record whose start_metric_state and end_metric_state
\* are both non-empty.
C21_EmptyNotifSkipsMemory ==
    (cycle > 0 /\ notif_str = "") =>
        /\ ragQuery \in {"none", "skipped"}
        /\ pc \in AfterMemoryStep =>
              /\ ragQuery = "skipped"
              /\ rag_result = RagNone
        /\ PipelineCompleted =>
              /\ Cardinality(WritesOf("insert_strategy_and_result")) = 1
              /\ \A k \in WritesOf("insert_strategy_and_result") :
                    /\ db[k].start_metric_state # << >>
                    /\ db[k].end_metric_state # << >>

C21_Witness ==
    /\ notif_str = ""
    /\ metric_name = "other"
    /\ MetricState(metric_name) = << >>
    /\ ragQuery = "skipped"
    /\ PipelineCompleted
    /\ WritesOf("insert_strategy_and_result") # {}

\* C22: a cycle persists at most one strategy record; in a cycle that persists
\* one, the start metric (and the start snapshot) is taken before any stage
\* attempt, the end metric and end snapshot after the last Remediation attempt,
\* and insert_strategy_and_result after the end snapshot.
NoAttemptYet ==
    /\ stage = 0
    /\ genCalls = 0
    /\ regenCalls = 0
    /\ runCalls = 0
    /\ attempts = << >>

C22_OneRecordInOrder ==
    /\ [](Cardinality(WritesOf("insert_strategy_and_result")) <= 1)
    /\ [](\A k \in WritesOf("insert_strategy_and_result") :
            /\ k = Len(db)
            /\ k > 1
            /\ db[k - 1] = Write("insert_wallet_snapshot", "end")
            /\ stageStatus[Remediation] = "succeeded"
            /\ metric_name = "security" =>
                  /\ db[1] = Write("insert_wallet_snapshot", "start")
                  /\ k - 1 > 1)
    /\ [](Writes("insert_wallet_snapshot", "end") # {} =>
            /\ stage = Remediation
            /\ stageStatus[Remediation] \in {"succeeded", "exhausted"}
            /\ pc \in {"insert_strategy", "returned", "raised"})
    /\ [][(cycle' = cycle + 1 /\ pc' = "rag") => NoAttemptYet']_vars
    /\ [][(pc \in {"end_snapshot", "insert_strategy"}) =>
            UNCHANGED << cycle, stage, genCalls, regenCalls, runCalls,
                         attempts >>]_vars

C22_Witness ==
    /\ metric_name = "security"
    /\ cycle = 2
    /\ pc = "returned"
    /\ Len(db) = 4
    /\ db[1] = Write("insert_wallet_snapshot", "start")
    /\ db[3] = Write("insert_wallet_snapshot", "end")
    /\ db[4].op = "insert_strategy_and_result"

\* ------------------------------------- further claims on the orchestrator
RunEnded == opc \in {"done", "propagated"}

\* C23 (as claimed): no failure of a collaborator propagates out of
\* start_security_agent_with_background_monitor, also not during the setup
\* before the loop nor during the monitor shutdown; only an interrupt ends the
\* run.
C23_NoFailurePropagates ==
    RunEnded =>
        /\ interruptedAt # "none"
        /\ exc # "Exception"

\* C23 (amended): a collaborator's failure propagates out of
\* start_security_agent_with_background_monitor only when it is raised by the
\* setup before the loop or by stop_monitoring in the finally block; failures
\* inside the loop never do, and once the setup is done only an interrupt ends
\* the run.
C23_OnlySetupAndStopPropagate ==
    /\ []((opc = "propagated" /\ exc = "Exception") =>
            \/ background_monitor = "unset"
            \/ stopCalls = 1 /\ loopExit # "none")
    /\ []((RunEnded /\ background_monitor # "unset") => interruptedAt # "none")
    /\ [][(exc' = "Exception" /\ exc # "Exception") =>
            opc \in {"setup", "finally"}]_vars

C23_Witness ==
    /\ opc = "propagated"
    /\ exc = "Exception"
    /\ stopCalls = 1
    /\ prevCooled
    /\ cycle_count = 2

IterationOver == opc \in {"sleep", "cooldown"}

StatusDue ==
    /\ cycle_count % StatusInterval = 0
    /\ background_monitor = "present"
    /\ iter.flow = "returned"

\* C24 (as claimed): the monitor status is logged in exactly the iterations
\* whose number is a multiple of 10, with a monitor present, whose flow
\* returned without raising.
C24_StatusLoggedIffTenthCycle ==
    /\ iter.post = "logged" => StatusDue
    /\ (IterationOver /\ StatusDue) => iter.post = "logged"

\* C24 (amended): the monitor status is logged in exactly the iterations whose
\* number is a multiple of 10, with a monitor present, whose flow returned
\* without raising, whose cycle-count update did not raise and whose status
\* read succeeded; in the first 10 iterations that can only be the 10th.
C24_StatusLoggedIffReadSucceeds ==
    /\ iter.post = "logged" =>
          /\ StatusDue
          /\ iter.counted
          /\ cycle_count >= StatusInterval
    /\ (IterationOver /\ StatusDue /\ iter.counted /\ iter.post # "failed") =>
          iter.post = "logged"
    /\ (IterationOver /\ iter.post = "skipped") =>
          \/ cycle_count % StatusInterval # 0
          \/ background_monitor = "none"

C24_Witness ==
    /\ cycle_count = StatusInterval
    /\ iter.flow = "returned"
    /\ iter.post = "logged"
    /\ opc = "sleep"

C26_OneCycleInFlight ==
    /\ [](iter.flow = "running" <=> opc \in FlowPositions)
    /\ [][(iter'.flow = "running" /\ iter.flow # "running") =>
            /\ opc = "flow_call"
            /\ iter.flow = "notrun"]_vars
    /\ [][(cycle_count' # cycle_count /\ cycle_count >= 1) =>
            /\ opc = "iter_begin"
            /\ iter.flow \in {"notrun", "returned", "raised"}]_vars
    /\ [][(opc' = "iter_begin" /\ opc # "iter_begin") =>
            opc \in {"start_incoming", "sleep", "cooldown"}]_vars
    /\ [][monitor_polls' # monitor_polls =>
            UNCHANGED << opc, iter, cycle_count >>]_vars

C26_Witness ==
    /\ cycle_count = 2
    /\ opc = "flow_stages"
    /\ iter.flow = "running"
    /\ ~prevCooled
    /\ monitor_polls = MaxPolls

\* ------------------------------------------------------------ C27 .. C30
FirstCallMade == npc \in {"extracted", "extracted_twice"}
FencedBlocks(x) == CodeBlocks(FixUnicode(x), 1)
Occurrences(t, l) == Cardinality({ k \in DOMAIN t : StripLine(t[k]) = l })

\* C27: extract_python_code returns a text for every input and never raises,
\* also for an input in which no code is found and that holds an explanatory
\* phrase such as 'here is'.
C27_ExtractNeverRaises ==
    FirstCallMade => first_pass.exc = "none" /\ IsText(first_pass.text)

C29_ExtractIdempotent ==
    (/\ npc = "extracted_twice"
     /\ _is_valid_python_code(first_pass.text))
        => second_pass = first_pass

\* C30: _complete_python_code is idempotent: on its own output it returns
\* that output unchanged, with no second copy of an import statement and no
\* second load_dotenv() call.
C30_CompleteIdempotent ==
    npc = "completed_twice"
        => /\ second_pass = first_pass
           /\ \A imp \in Range(ImportStatements) \cup {"load_dotenv()"} :
                  Occurrences(second_pass.text, imp)
                      = Occurrences(first_pass.text, imp)

\* The first run injected an import and the load_dotenv() call; the second
\* run has been made.
C30_Witness ==
    /\ npc = "completed_twice"
    /\ Occurrences(normalizer_input, "import time") = 0
    /\ Occurrences(first_pass.text, "import time") = 1
    /\ Occurrences(normalizer_input, "load_dotenv()") = 0
    /\ Occurrences(first_pass.text, "load_dotenv()") = 1

\* ------------------------------------------------------------ C31 .. C40
ReferencesSleep(t) == \E k \in DOMAIN t : t[k] \in Uses("import time")
FirstCompleteMade == npc \in {"completed", "completed_twice"}

\* C31: for a script that references a sleep call and holds no 'import time'
\* line, the text extract_python_code returns holds exactly one.
C31_SleepGetsOneImport ==
    (/\ FirstCallMade
     /\ first_pass.exc = "none"
     /\ ReferencesSleep(normalizer_input)
     /\ Occurrences(normalizer_input, "import time") = 0)
        => Occurrences(first_pass.text, "import time") = 1

\* C34: _complete_python_code adds an import line only when the statement
\* occurs nowhere in the script, also not after the first non-import line:
\* a statement the input holds is not added again, and the output holds no
\* statement twice unless the input did.
C34_NoImportAddedTwice ==
    FirstCompleteMade
        => \A imp \in Range(ImportStatements) :
              /\ Occurrences(normalizer_input, imp) >= 1
                    => Occurrences(first_pass.text, imp)
                           = Occurrences(normalizer_input, imp)
              /\ Occurrences(first_pass.text, imp) >= 2
                    => Occurrences(normalizer_input, imp) >= 2

IsPrefix(a, b) == Len(a) <= Len(b) /\ SubSeq(b, 1, Len(a)) = a

\* C32: the in-session history is a prefix of the training history at every
\* point of a cycle: the two are equal until Remediation starts, the turns the
\* training history holds beyond the in-session history are Remediation's,
\* and the in-session history holds no turn of Remediation.
C32_SessionIsPrefixOfTraining ==
    /\ IsPrefix(chat_history, for_training_chat_history)
    /\ stage # Remediation => chat_history = for_training_chat_history
    /\ \A k \in DOMAIN for_training_chat_history :
          k > Len(chat_history)
             => for_training_chat_history[k].stage = Remediation
    /\ \A k \in DOMAIN chat_history : chat_history[k].stage # Remediation

\* Remediation has added its delta twice to the training history, after the
\* three earlier stages added theirs to both.
C32_Witness ==
    /\ stage = Remediation
    /\ Len(chat_history) >= 4
    /\ Len(for_training_chat_history) = Len(chat_history) + 2

\* C33: when attempt 2 regenerated a response and then failed in the sandbox,
\* the regenerate call of attempt 3 is handed attempt 2's response as the
\* latest response.
C33_RegenGetsLatestRegenerated ==
    \A k \in DOMAIN regenLog :
       (/\ regenLog[k].attempt = 3
        /\ attempts[2].fn = "regen"
        /\ attempts[2].gen = "ok"
        /\ attempts[2].run = "err")
           => regenLog[k].latest_response = attempts[2].code

\* C35: only a failed result is retried.  Every attempt after a stage's first
\* is a regenerate call that follows an attempt whose result was a failure;
\* an exception raised by a generator, the normalizer or the sandbox gateway
\* ends the flow at that attempt, as an exception the loop's "except
\* Exception" clause takes to the cooldown; from then to the next cycle no
\* generator, regenerate or sandbox call is made and nothing is written.
C35_OnlyFailedResultsAreRetried ==
    /\ [](\A k \in DOMAIN attempts :
             k > 1 => attempts[k].fn = "regen" /\ Failed(attempts[k - 1]))
    /\ [](\A s \in Stages :
             stageStatus[s] = "raised"
                => /\ pc = "raised"
                   /\ stage = s
                   /\ HandlerFor("Exception", "flow_stages") = "cooldown")
    /\ [][pc = "raised"
             => \/ cycle' = cycle + 1
                \/ /\ pc' = "raised"
                   /\ UNCHANGED << db, attempts, genCalls, regenCalls,
                                   runCalls, regenLog >>]_vars

\* The sandbox step of a second attempt raised, after the start snapshot was
\* written.
C35_Witness ==
    /\ pc = "raised"
    /\ stage \in Stages
    /\ stageStatus[stage] = "raised"
    /\ Len(attempts) = 2
    /\ attempts[2].run = "raise"
    /\ db # << >>

StageTurns(hist, s) == { k \in DOMAIN hist : hist[k].stage = s }
GenerationsSucceeded == { k \in DOMAIN attempts : attempts[k].gen = "ok" }
RegenResponses == { RegenResponse(n) : n \in 1..MaxAttempts }

\* C37: the running stage's delta is in the training history once for every
\* attempt of the stage whose generation step succeeded, each time as the
\* same delta (the one the first-attempt generator returned), and no history
\* holds a response that regen_on_error returned.
C37_DeltaAppendedPerSuccessfulGeneration ==
    /\ stage \in Stages =>
          /\ Cardinality(StageTurns(for_training_chat_history, stage))
                = Cardinality(GenerationsSucceeded)
          /\ \A k \in StageTurns(for_training_chat_history, stage) :
                for_training_chat_history[k] = new_ch[1]
    /\ \A k \in DOMAIN for_training_chat_history :
          for_training_chat_history[k].resp \notin RegenResponses
    /\ \A k \in DOMAIN chat_history :
          chat_history[k].resp \notin RegenResponses

\* The first generation succeeded and its sandbox run failed; the regenerate
\* call succeeded too: the training history holds the stage's delta twice.
C37_Witness ==
    /\ stage \in Stages
    /\ Len(attempts) = 2
    /\ attempts[1].gen = "ok"
    /\ attempts[2].fn = "regen"
    /\ attempts[2].gen = "ok"
    /\ Cardinality(StageTurns(for_training_chat_history, stage)) = 2

StartSnapshot == Write("insert_wallet_snapshot", "start")
\* The cycle got past the start metric and the start snapshot (a cycle that
\* raised there has made no memory query).
PastEntry == pc # "idle" /\ ~(pc = "raised" /\ ragQuery = "none")
AbortedByExhaustion ==
    /\ pc = "returned"
    /\ \E s \in Stages \ {Remediation} : stageStatus[s] = "exhausted"

\* C38: the start snapshot is written only for the metric 'security', and
\* then as the cycle's first write, before any generation call; the end
\* snapshot is written for every metric; a cycle aborted by exhaustion of
\* Analysis, Strategy or Threat Research has written the start snapshot (if
\* the metric is 'security') and nothing else.
C38_SnapshotsAndAbort ==
    /\ Writes("insert_wallet_snapshot", "start")
          = IF metric_name = "security" /\ PastEntry THEN {1} ELSE {}
    /\ (genCalls + regenCalls > 0 /\ metric_name = "security")
          => db # << >> /\ db[1] = StartSnapshot
    /\ pc = "insert_strategy" => Writes("insert_wallet_snapshot", "end") # {}
    /\ AbortedByExhaustion
          => db = (IF metric_name = "security" THEN << StartSnapshot >> ELSE << >>)

\* A cycle aborted by Strategy exhaustion with the start snapshot as its only
\* write.
C38_Witness ==
    /\ pc = "returned"
    /\ stageStatus[Strategy] = "exhausted"
    /\ db = << StartSnapshot >>

\* The progress of a cycle, as a number that every step of the flow raises:
\* the memory query, the system prompt, for each stage its attempts (the
\* generation step, then the sandbox step) and the end of its loop, then the
\* persistence block, then the return.
Rank ==
    CASE pc = "idle"            -> 0
      [] pc = "rag"             -> 1
      [] pc = "prepare"         -> 2
      [] pc = "attempt"         -> 10 * stage + 3 * i
      [] pc = "run"             -> 10 * stage + 3 * i + 1
      [] pc = "stage_end"       -> 10 * stage + 9
      [] pc = "log_output"      -> 50
      [] pc = "insert_chat"     -> 51
      [] pc = "end_snapshot"    -> 52
      [] pc = "insert_strategy" -> 53
      [] OTHER                  -> 100
FlowRunning == pc \notin {"idle", "returned", "raised"}
StagesEntered == { s \in Stages : stageStatus[s] # "idle" }

\* C39: assisted_flow terminates when every collaborator call returns: a
\* running flow always has a next step, and every step of a cycle raises the
\* bounded rank.  A stage makes at most 1 first-attempt generator call, 2
\* regenerate calls and 3 sandbox runs, none of them in Strategy, and a cycle
\* enters each of its 4 stages at most once, in order: at most 4, 8 and 9
\* calls in a cycle.
C39_FlowTerminatesWithinBounds ==
    /\ [](FlowRunning => ENABLED Next)
    /\ [](Rank \in 0..100)
    /\ [][cycle' = cycle => Rank' > Rank]_vars
    /\ [](genCalls <= 1 /\ regenCalls <= 2 /\ runCalls <= 3)
    /\ [](genCalls + regenCalls <= 3)
    /\ [](stage = Strategy => runCalls = 0)
    /\ [](stage \notin Stages => genCalls + regenCalls + runCalls = 0)
    /\ [](StagesEntered = { s \in Stages : s <= stage })
    /\ [][cycle' = cycle => stage' \in {stage, stage + 1}]_vars

\* Remediation succeeded at its third attempt: 1 generator call, 2 regenerate
\* calls and 3 sandbox runs in the fourth stage entered.
C39_Witness ==
    /\ stage = Remediation
    /\ pc = "stage_end"
    /\ success
    /\ genCalls = 1
    /\ regenCalls = 2
    /\ runCalls = 3
    /\ StagesEntered = Stages

\* C40: unassisted_flow persists a strategy record only after its Analysis
\* stage succeeded within 3 attempts, and then one record with the outcome
\* 'success' once insert_strategy_and_result has returned; when the stage
\* exhausted its attempts the flow returns with nothing persisted and without
\* reaching the insert call.
C40_UnassistedPersistsOnSuccessOnly ==
    /\ WritesOf("insert_strategy_and_result") # {}
          => /\ success
             /\ Len(attempts) <= 3
             /\ ~Failed(attempts[Len(attempts)])
    /\ Cardinality(WritesOf("insert_strategy_and_result")) <= 1
    /\ \A k \in WritesOf("insert_strategy_and_result") : db[k].arg = "success"
    /\ (pc = "returned" /\ success)
          => Cardinality(WritesOf("insert_strategy_and_result")) = 1
    /\ (pc = "returned" /\ ~success)
          => /\ AllAttemptsFailed
             /\ db = << >>
    /\ pc = "insert_strategy" => success

\* The stage succeeded at its third attempt and the record was written.
C40_Witness ==
    /\ pc = "returned"
    /\ success
    /\ Len(attempts) = 3
    /\ db = << UnassistedInsertData("success") >>

====
